---- MODULE Spec2Model ----
(***************************************************************************)
(* A model of the fetch pipeline of SCR (src/src/scr_fetch.c).             *)
(*                                                                         *)
(*   SpecFlow / SpecFlowFair : scr_fetch_data (the flow-control window of  *)
(*       rank 0 and the go/done exchange of the other ranks) followed by   *)
(*       the tail of scr_fetch_files that reduces the outcome.             *)
(*   SpecSync : scr_fetch_sync, the candidate loop around scr_fetch_files, *)
(*       with the index file and the current symlink of the prefix         *)
(*       directory.                                                        *)
(*   SpecFile : the fetch of one file, by scr_fetch_file (plain file) or   *)
(*       by scr_fetch_file_from_containers (segments of containers).       *)
(*   SpecList : scr_fetch_files_list, the loop over the files of a rank.   *)
(***************************************************************************)
EXTENDS Integers, Sequences, FiniteSets, TLC

(* ------------------------------------------------------------------ *)
(* Bounds of the model                                                  *)
(* ------------------------------------------------------------------ *)

\* largest world size explored (scr_ranks_world ranges over 1..MaxRanks)
MaxRanks == 4

\* largest configured window explored (scr_fetch_width ranges over 1..MaxWidth)
MaxWidth == 3

\* largest world size explored by SpecSync
MaxSyncRanks == 2

\* number of checkpoint ids (and subdirectories) the prefix directory may hold
MaxCkpts == 2

\* largest number of segments of a container-backed file
MaxSegs == 2

\* largest transfer buffer explored (scr_file_buf_size ranges over 1..MaxBuf)
MaxBuf == 2

\* checksums range over 0..CrcMod-1
CrcMod == 7

\* largest number of files in the file list of a rank
MaxFiles == 2

(* ------------------------------------------------------------------ *)
(* Return codes                                                         *)
(* ------------------------------------------------------------------ *)

SCR_SUCCESS == "SCR_SUCCESS"

SCR_FAILURE == "SCR_FAILURE"

RC == {SCR_SUCCESS, SCR_FAILURE}

VARIABLES
  \* ---- scr_fetch_data / tail of scr_fetch_files (SpecFlow) ----
  scr_ranks_world,  \* number of ranks in scr_comm_world
  scr_fetch_width,  \* configured window width
  pc,               \* pc[r]: where rank r is in scr_fetch_data / scr_fetch_files
  success,          \* success[r]: the local `success` of scr_fetch_data on rank r
  w,                \* rank 0: clamped window width
  outstanding,      \* rank 0: number of outstanding requests
  index,            \* rank 0: slot index
  i,                \* rank 0: next rank to start
  flags,            \* rank 0: int flags[2*w]  (go values, then done values)
  req,              \* rank 0: MPI_Request req[2*w] (sends, then receives)
  peer,             \* rank 0: the rank each slot's pending requests address
  chanGo,           \* chanGo[r]: "go" messages sent by rank 0 to r, not yet received
  chanDone,         \* chanDone[r]: "done" messages sent by r, not yet received by rank 0
  list_rc,          \* list_rc[r]: result of scr_fetch_files_list on r ("none": not invoked)
  go_seen,          \* go_seen[r]: sequence of the go values rank r has received
  done_seen,        \* done_seen[r]: sequence of the done values rank 0 received from r
  go_after_failure, \* go_after_failure[r]: rank 0 had already observed a failure when it sent r's go
  data_rc,          \* data_rc[r]: return value of scr_fetch_data on r ("none" before)
  files_rc,         \* files_rc[r]: return value of scr_fetch_files on r ("none" before)
  reddesc_rc,       \* collective result of scr_reddesc_apply ("none" before anyone ran it)
  cache_deleted,    \* cache_deleted[r]: number of scr_cache_delete calls after the data phase
  fmap_files,       \* fmap_files[r]: the filemap passed as map lists files of the dataset
  scr_map_is_map,   \* the caller passed the global scr_map as map
  cache_calls,      \* cache_calls[r]: the calls on the cache made by rank r, in order
  \* ---- scr_fetch_sync (SpecSync) ----
  spc,              \* spc[r]: where rank r is in scr_fetch_sync
  entered,          \* entered[r]: number of calls of scr_fetch_files rank r has made
  index_disk,       \* the index file of the prefix directory
  index_readable,   \* whether scr_index_read can read it
  index_start,      \* the index file as it was when scr_fetch_sync started
  current,          \* target of the current symlink (NoDir: there is no symlink)
  dir_readable,     \* the subdirectories of the prefix directory that can be accessed
  index_hash,       \* rank 0: the index in memory
  read_index_file,  \* rank 0: the index file was read
  target,           \* rank 0: subdirectory chosen in this iteration (NoDir: "")
  current_checkpoint_id, \* rank 0: id of the checkpoint chosen (NoId: -1)
  fetch_dir,        \* fetch_dir[r]: the fetch directory on rank r (NoDir: "")
  sync_rc,          \* sync_rc[r]: rc of scr_fetch_sync on rank r
  fetch_attempted,  \* fetch_attempted[r]: the caller's flag on rank r
  attempts,         \* the targets rank 0 passed to scr_fetch_files, in order
  att_outcome,      \* how the attempt being run ends: [k: attempt number, what: outcome]
  scr_log_enable,   \* whether rank 0 logs events
  events,           \* events rank 0 logged in its latest call of scr_fetch_files
  filemap,          \* filemap[r]: datasets with files listed in rank r's filemap
  index_writers,    \* ranks that wrote the index file
  link_writers,     \* ranks that created or removed the current symlink
  \* ---- fetch of one file (SpecFile) ----
  scr_crc_on_flush, \* whether CRC32 values are computed and checked
  scr_file_buf_size,\* size of the transfer buffer
  fmode,            \* "plain": scr_fetch_file, "containers": scr_fetch_file_from_containers
  segments,         \* the segments of the file, in the order the summary lists them
  segments_null,    \* the summary holds no segments hash for the file
  src,              \* plain file: the source file, [readable, bytes]
  rpc,              \* where the fetch of the file is
  sorted,           \* the segments after scr_hash_sort_int
  seg_i,            \* number of segments the for loop has visited
  fd_open,          \* the descriptors that are open: <<"dst", 0>>, <<"container", key>>
  buf_alloc,        \* whether the transfer buffer is allocated
  crc,              \* the running crc (NoCrc when not computed)
  rrc,              \* rc of the fetch of the file
  dst,              \* the destination file, [exists, bytes]
  meta_crc,         \* the crc recorded in the meta (NoCrc: no crc recorded)
  io_rc,            \* rc before the crc comparison ("none" before)
  written_keys,     \* keys of the segments whose bytes were written, in order
  read_keys,        \* keys of the segments whose container was opened, in order
  fault_used,       \* an I/O fault was injected
  first_error,      \* the first error of the fetch of the file ("none": no error yet)
  \* ---- scr_fetch_files_list (SpecList) ----
  have_containers,  \* file_list holds a containers hash
  nfiles,           \* number of files in the file list
  lpc,              \* where scr_fetch_files_list is
  lk,               \* number of files the loop has visited
  file,             \* the file being processed
  map,              \* the filemap in memory: path -> meta
  map_disk,         \* the filemap file: path -> meta
  expected_files,   \* expected number of files: <<in memory, on disk>>
  cache_files,      \* destination files that exist in the cache directory
  lrc,              \* rc of scr_fetch_files_list
  my_num_files,     \* the counter of files of scr_fetch_files_list
  processed,        \* the files visited so far, with what happened to each
  cache_dir,        \* dir: the cache directory of the dataset, as path components
  copied,           \* the last call of scr_copy_to: file read and file written
  \* ---- scr_fetch_summary (SpecSummary) ----
  summary_file,     \* the summary file of the directory
  summary_read,     \* how the read of rank 0 ended ("none" before)
  summary_hash,     \* the summary hash of rank 0
  summary_rc,       \* rc of scr_fetch_summary on each rank
  file_list,        \* the file_list of each rank
  collectives,      \* the collectives each rank took part in
  smpc              \* where each rank is in scr_fetch_summary

flowVars == <<scr_ranks_world, scr_fetch_width, pc, success, w, outstanding, index, i,
              flags, req, peer, chanGo, chanDone, list_rc, go_seen, done_seen,
              go_after_failure, data_rc, files_rc, reddesc_rc, cache_deleted,
              fmap_files, scr_map_is_map, cache_calls>>

syncVars == <<spc, entered, index_disk, index_readable, index_start, current, dir_readable,
              index_hash, read_index_file, target, current_checkpoint_id, fetch_dir,
              sync_rc, fetch_attempted, attempts, att_outcome, scr_log_enable, events,
              filemap, index_writers, link_writers>>

fileVars == <<scr_crc_on_flush, scr_file_buf_size, fmode, segments, segments_null, src, rpc, sorted, seg_i,
              fd_open, buf_alloc, crc, rrc, dst, meta_crc, io_rc, written_keys, read_keys,
              fault_used, first_error>>

listVars == <<have_containers, nfiles, lpc, lk, file, map, map_disk, expected_files,
              cache_files, lrc, my_num_files, processed, cache_dir, copied>>

summaryVars == <<summary_file, summary_read, summary_hash, summary_rc, file_list,
                 collectives, smpc>>

vars == <<flowVars, syncVars, fileVars, listVars, summaryVars>>

(* ------------------------------------------------------------------ *)
(* Values shared by the specifications                                  *)
(* ------------------------------------------------------------------ *)

\* the empty string as a subdirectory or directory name: strcpy(target, "")
NoDir == 0

\* no checkpoint id: current_checkpoint_id = -1
NoId == -1

\* checkpoint ids; the subdirectory of checkpoint k is written k as well
Ids == 1 .. MaxCkpts

\* an id that the index file does not list
AbsentRecord == [present |-> FALSE, complete |-> FALSE, failed |-> FALSE, fetched |-> FALSE]

\* the variables of scr_fetch_sync while another specification runs
IdleSync ==
  /\ spc = <<>>
  /\ entered = <<>>
  /\ index_disk = <<>>
  /\ index_readable = FALSE
  /\ index_start = <<>>
  /\ current = NoDir
  /\ dir_readable = {}
  /\ index_hash = <<>>
  /\ read_index_file = FALSE
  /\ target = NoDir
  /\ current_checkpoint_id = NoId
  /\ fetch_dir = <<>>
  /\ sync_rc = <<>>
  /\ fetch_attempted = <<>>
  /\ attempts = <<>>
  /\ att_outcome = [k |-> 0, what |-> "none"]
  /\ scr_log_enable = FALSE
  /\ events = <<>>
  /\ filemap = <<>>
  /\ index_writers = {}
  /\ link_writers = {}

\* the variables of scr_fetch_summary while another specification runs
IdleSummary ==
  /\ summary_file = "none"
  /\ summary_read = "none"
  /\ summary_hash = "none"
  /\ summary_rc = <<>>
  /\ file_list = <<>>
  /\ collectives = <<>>
  /\ smpc = <<>>

\* no crc: scr_meta_get_crc32 finds none, or scr_crc_on_flush is off
NoCrc == -1

\* a file that does not exist
NoFile == [exists |-> FALSE, bytes |-> <<>>]

\* the variables of the fetch of one file while another specification runs
IdleFile ==
  /\ scr_crc_on_flush = FALSE
  /\ scr_file_buf_size = 1
  /\ fmode = "none"
  /\ segments = <<>>
  /\ segments_null = FALSE
  /\ src = [readable |-> FALSE, bytes |-> <<>>]
  /\ rpc = "idle"
  /\ sorted = <<>>
  /\ seg_i = 0
  /\ fd_open = {}
  /\ buf_alloc = FALSE
  /\ crc = NoCrc
  /\ rrc = SCR_SUCCESS
  /\ dst = NoFile
  /\ meta_crc = NoCrc
  /\ io_rc = "none"
  /\ written_keys = <<>>
  /\ read_keys = <<>>
  /\ fault_used = FALSE
  /\ first_error = "none"

\* the variables of scr_fetch_files_list while another specification runs
IdleList ==
  /\ have_containers = FALSE
  /\ nfiles = 0
  /\ lpc = "idle"
  /\ lk = 0
  /\ file = "none"
  /\ map = <<>>
  /\ map_disk = <<>>
  /\ expected_files = <<>>
  /\ cache_files = {}
  /\ lrc = SCR_SUCCESS
  /\ my_num_files = 0
  /\ processed = <<>>
  /\ cache_dir = <<>>
  /\ copied = <<>>

\* the variables of scr_fetch_data while another specification runs
IdleFlow ==
  /\ scr_fetch_width = 1
  /\ pc = <<>>
  /\ success = <<>>
  /\ w = 0
  /\ outstanding = 0
  /\ index = 0
  /\ i = 1
  /\ flags = <<>>
  /\ req = <<>>
  /\ peer = <<>>
  /\ chanGo = <<>>
  /\ chanDone = <<>>
  /\ list_rc = <<>>
  /\ go_seen = <<>>
  /\ done_seen = <<>>
  /\ go_after_failure = <<>>
  /\ data_rc = <<>>
  /\ files_rc = <<>>
  /\ reddesc_rc = "none"
  /\ cache_deleted = <<>>
  /\ fmap_files = <<>>
  /\ scr_map_is_map = TRUE
  /\ cache_calls = <<>>

(* ------------------------------------------------------------------ *)
(* Helpers                                                              *)
(* ------------------------------------------------------------------ *)

Min(a, b) == IF a < b THEN a ELSE b

Ranks == 0 .. (scr_ranks_world - 1)

Workers == 1 .. (scr_ranks_world - 1)

\* scr_alltrue(flag): logical AND of the flag of every rank (all-reduce)
AllTrue(flag) == \A r \in Ranks : flag[r]

\* order of the program points of one rank; a collective completes on a rank
\* once every rank has reached it
Stage(p) ==
  CASE p \in {"prepare", "data", "list0", "post", "recv", "list", "send"} -> 0
    [] p = "data_alltrue"  -> 1
    [] p = "files_alltrue" -> 2
    [] p = "apply"         -> 3
    [] p = "return"        -> 4

AllReached(n) == \A r \in Ranks : Stage(pc[r]) >= n

(* ------------------------------------------------------------------ *)
(* scr_fetch_data, rank 0                                               *)
(* ------------------------------------------------------------------ *)

\* mutation: the window is one wider than configured
WindowWidthOffByOne(width, ranks) ==
  IF width + 1 > ranks - 1 THEN ranks - 1 ELSE width + 1

\* w = scr_fetch_width, clamped to scr_ranks_world - 1
WindowWidth(width, ranks) ==
  IF width > ranks - 1 THEN ranks - 1 ELSE width

\* mutation: the window loop stops once every rank was started, replies pending or not
WindowNextNoDrain(ii, out) ==
  IF ii < scr_ranks_world THEN "post" ELSE "data_alltrue"

\* the loop test of the flow-control window: where rank 0 goes next
WindowNext(ii, out) ==
  IF ii < scr_ranks_world \/ out > 0 THEN "post" ELSE "data_alltrue"

\* rank 0 has observed a failure: its own file list failed or a done carried failure
Rank0ObservedFailure ==
  \/ list_rc[0] = SCR_FAILURE
  \/ \E r \in Workers : \E k \in 1 .. Len(done_seen[r]) : done_seen[r][k] = SCR_FAILURE

\* rank 0 fetches its own files, then sets up the window
Rank0FetchList ==
  /\ pc[0] = "list0"
  /\ \E rc \in RC :
       /\ list_rc' = [list_rc EXCEPT ![0] = rc]
       /\ success' = [success EXCEPT ![0] = rc]
  /\ fmap_files' = [fmap_files EXCEPT ![0] = TRUE]
  /\ w' = WindowWidth(scr_fetch_width, scr_ranks_world)
  /\ flags' = [s \in 0 .. (2 * w' - 1) |-> "uninit"]
  /\ req' = [s \in 0 .. (2 * w' - 1) |-> "uninit"]
  /\ peer' = [s \in 0 .. (w' - 1) |-> 0]
  /\ outstanding' = 0
  /\ index' = 0
  /\ i' = 1
  /\ pc' = [pc EXCEPT ![0] = WindowNext(1, 0)]
  /\ UNCHANGED <<syncVars, fileVars, listVars, summaryVars>>
  /\ UNCHANGED <<scr_ranks_world, scr_fetch_width, chanGo, chanDone, go_seen, done_seen,
                 go_after_failure, data_rc, files_rc, reddesc_rc, cache_deleted,
                 scr_map_is_map, cache_calls>>

\* the value a go message carries
GoFlag == success[0]

\* one iteration of the inner loop: MPI_Irecv for the reply of rank i, MPI_Isend of go
Rank0Post ==
  /\ pc[0] = "post"
  /\ i < scr_ranks_world /\ outstanding < w
  /\ req' = [req EXCEPT ![index + w] = "active", ![index] = "active"]
  /\ flags' = [flags EXCEPT ![index] = GoFlag]
  /\ peer' = [peer EXCEPT ![index] = i]
  /\ chanGo' = [chanGo EXCEPT ![i] = Append(@, GoFlag)]
  /\ go_after_failure' = [go_after_failure EXCEPT ![i] = Rank0ObservedFailure]
  /\ outstanding' = outstanding + 1
  /\ index' = index + 1
  /\ i' = i + 1
  /\ UNCHANGED <<syncVars, fileVars, listVars, summaryVars>>
  /\ UNCHANGED <<scr_ranks_world, scr_fetch_width, pc, success, w, chanDone, list_rc,
                 go_seen, done_seen, data_rc, files_rc, reddesc_rc, cache_deleted,
                 fmap_files, scr_map_is_map, cache_calls>>

\* mutation: the reply of the rank is not folded into success
FoldReplyIgnored(cur, reply) == cur

\* if (flags[index + w] != SCR_SUCCESS) success = SCR_FAILURE
FoldReply(cur, reply) == IF reply # SCR_SUCCESS THEN SCR_FAILURE ELSE cur

\* mutation: MPI_Waitany reports slot 0 whichever receive completed
WaitAnyIndexFirst(k) == 0

\* the index MPI_Waitany stores: the slot k of the receive that completed
WaitAnyIndex(k) == k

\* MPI_Waitany over the receives, MPI_Wait on the matching send, fold the reply,
\* one less outstanding, then the loop test
Rank0WaitAny ==
  /\ pc[0] = "post"
  /\ ~(i < scr_ranks_world /\ outstanding < w)
  /\ \A s \in w .. (2 * w - 1) : req[s] # "uninit"
  /\ \E k \in 0 .. (w - 1) :
       /\ req[k + w] = "active"
       /\ Len(chanDone[peer[k]]) > 0
       /\ req[k] = "complete"
       /\ LET reply == Head(chanDone[peer[k]]) IN
            /\ chanDone' = [chanDone EXCEPT ![peer[k]] = Tail(@)]
            /\ done_seen' = [done_seen EXCEPT ![peer[k]] = Append(@, reply)]
            /\ flags' = [flags EXCEPT ![k + w] = reply]
            /\ req' = [req EXCEPT ![k + w] = "null", ![k] = "null"]
            /\ index' = WaitAnyIndex(k)
            /\ success' = [success EXCEPT ![0] = FoldReply(success[0], reply)]
       /\ outstanding' = outstanding - 1
       /\ pc' = [pc EXCEPT ![0] = WindowNext(i, outstanding - 1)]
  /\ UNCHANGED <<syncVars, fileVars, listVars, summaryVars>>
  /\ UNCHANGED <<scr_ranks_world, scr_fetch_width, w, i, peer, chanGo, list_rc, go_seen,
                 go_after_failure, data_rc, files_rc, reddesc_rc, cache_deleted,
                 fmap_files, scr_map_is_map, cache_calls>>

(* ------------------------------------------------------------------ *)
(* scr_fetch_data, ranks other than 0                                   *)
(* ------------------------------------------------------------------ *)

\* if rank 0 hasn't seen a failure, read in our files; otherwise go straight to the reply
AfterGo(flag) == IF flag = SCR_SUCCESS THEN "list" ELSE "send"

\* MPI_Recv of the start signal from rank 0
RecvGo(r) ==
  /\ pc[r] = "recv"
  /\ Len(chanGo[r]) > 0
  /\ LET flag == Head(chanGo[r]) IN
       /\ success' = [success EXCEPT ![r] = flag]
       /\ go_seen' = [go_seen EXCEPT ![r] = Append(@, flag)]
       /\ pc' = [pc EXCEPT ![r] = AfterGo(flag)]
  /\ chanGo' = [chanGo EXCEPT ![r] = Tail(@)]
  /\ req' = [s \in DOMAIN req |->
               IF s < w /\ peer[s] = r /\ req[s] = "active" THEN "complete" ELSE req[s]]
  /\ UNCHANGED <<syncVars, fileVars, listVars, summaryVars>>
  /\ UNCHANGED <<scr_ranks_world, scr_fetch_width, w, outstanding, index, i, flags, peer,
                 chanDone, list_rc, done_seen, go_after_failure, data_rc, files_rc,
                 reddesc_rc, cache_deleted,
                 fmap_files, scr_map_is_map, cache_calls>>

\* scr_fetch_files_list on rank r; its outcome is SCR_SUCCESS or SCR_FAILURE
FetchList(r) ==
  /\ pc[r] = "list"
  /\ \E rc \in RC :
       /\ list_rc' = [list_rc EXCEPT ![r] = rc]
       /\ success' = [success EXCEPT ![r] = IF rc # SCR_SUCCESS THEN SCR_FAILURE ELSE @]
  /\ fmap_files' = [fmap_files EXCEPT ![r] = TRUE]
  /\ pc' = [pc EXCEPT ![r] = "send"]
  /\ UNCHANGED <<syncVars, fileVars, listVars, summaryVars>>
  /\ UNCHANGED <<scr_ranks_world, scr_fetch_width, w, outstanding, index, i, flags, req,
                 peer, chanGo, chanDone, go_seen, done_seen, go_after_failure, data_rc,
                 files_rc, reddesc_rc, cache_deleted,
                 scr_map_is_map, cache_calls>>

\* MPI_Send of our success code to rank 0
SendDone(r) ==
  /\ pc[r] = "send"
  /\ chanDone' = [chanDone EXCEPT ![r] = Append(@, success[r])]
  /\ pc' = [pc EXCEPT ![r] = "data_alltrue"]
  /\ UNCHANGED <<syncVars, fileVars, listVars, summaryVars>>
  /\ UNCHANGED <<scr_ranks_world, scr_fetch_width, success, w, outstanding, index, i,
                 flags, req, peer, chanGo, list_rc, go_seen, done_seen, go_after_failure,
                 data_rc, files_rc, reddesc_rc, cache_deleted,
                 fmap_files, scr_map_is_map, cache_calls>>

(* ------------------------------------------------------------------ *)
(* end of scr_fetch_data and tail of scr_fetch_files, every rank        *)
(* ------------------------------------------------------------------ *)

\* mutation: scr_fetch_data returns the local success without the reduction
DataResultLocal(r) == success[r]

\* scr_alltrue(success == SCR_SUCCESS) ? SCR_SUCCESS : SCR_FAILURE
DataResult(r) ==
  IF AllTrue([q \in Ranks |-> success[q] = SCR_SUCCESS]) THEN SCR_SUCCESS ELSE SCR_FAILURE

\* scr_fetch_data returns on rank r
FetchDataReturn(r) ==
  /\ pc[r] = "data_alltrue"
  /\ AllReached(1)
  /\ data_rc' = [data_rc EXCEPT ![r] = DataResult(r)]
  /\ pc' = [pc EXCEPT ![r] = "files_alltrue"]
  /\ UNCHANGED <<syncVars, fileVars, listVars, summaryVars>>
  /\ UNCHANGED <<scr_ranks_world, scr_fetch_width, success, w, outstanding, index, i,
                 flags, req, peer, chanGo, chanDone, list_rc, go_seen, done_seen,
                 go_after_failure, files_rc, reddesc_rc, cache_deleted,
                 fmap_files, scr_map_is_map, cache_calls>>

\* mutation: scr_cache_delete leaves the filemap as it is
CacheDeleteNot(listed, same) == listed

\* scr_cache_delete(m, id) seen from the filemap passed as map, which lists files
\* of dataset id or not: m is that filemap (same) or another one
CacheDelete(listed, same) == IF same THEN FALSE ELSE listed

\* scr_fetch_files: if (! scr_alltrue(success)) { scr_cache_delete; return SCR_FAILURE; }
FetchFilesReduce(r) ==
  /\ pc[r] = "files_alltrue"
  /\ AllReached(2)
  /\ IF AllTrue([q \in Ranks |-> data_rc[q] = SCR_SUCCESS])
       THEN /\ pc' = [pc EXCEPT ![r] = "apply"]
            /\ UNCHANGED <<files_rc, cache_deleted, fmap_files, cache_calls>>
       ELSE /\ cache_deleted' = [cache_deleted EXCEPT ![r] = @ + 1]
            /\ cache_calls' = [cache_calls EXCEPT ![r] = Append(@, "delete_map")]
            /\ fmap_files' = [fmap_files EXCEPT ![r] = CacheDelete(@, TRUE)]
            /\ files_rc' = [files_rc EXCEPT ![r] = SCR_FAILURE]
            /\ pc' = [pc EXCEPT ![r] = "return"]
  /\ UNCHANGED <<syncVars, fileVars, listVars, summaryVars>>
  /\ UNCHANGED <<scr_ranks_world, scr_fetch_width, success, w, outstanding, index, i,
                 flags, req, peer, chanGo, chanDone, list_rc, go_seen, done_seen,
                 go_after_failure, data_rc, reddesc_rc, scr_map_is_map>>

\* scr_reddesc_apply (a collective whose result is the same on every rank), then
\* return its result; on failure the checkpoint is deleted from the cache
ApplyRedundancy(r) ==
  /\ pc[r] = "apply"
  /\ AllReached(3)
  /\ \E rc \in (IF reddesc_rc = "none" THEN RC ELSE {reddesc_rc}) :
       /\ reddesc_rc' = rc
       /\ files_rc' = [files_rc EXCEPT ![r] = rc]
       /\ cache_deleted' = [cache_deleted EXCEPT ![r] = IF rc = SCR_SUCCESS THEN @ ELSE @ + 1]
       /\ cache_calls' = [cache_calls EXCEPT ![r] =
                            IF rc = SCR_SUCCESS THEN @ ELSE Append(@, "delete_scr_map")]
       /\ fmap_files' = [fmap_files EXCEPT ![r] =
                           IF rc = SCR_SUCCESS THEN @ ELSE CacheDelete(@, scr_map_is_map)]
  /\ pc' = [pc EXCEPT ![r] = "return"]
  /\ UNCHANGED <<syncVars, fileVars, listVars, summaryVars>>
  /\ UNCHANGED <<scr_ranks_world, scr_fetch_width, success, w, outstanding, index, i,
                 flags, req, peer, chanGo, chanDone, list_rc, go_seen, done_seen,
                 go_after_failure, data_rc, scr_map_is_map>>

(* ------------------------------------------------------------------ *)
(* SpecFlow                                                             *)
(* ------------------------------------------------------------------ *)

InitFlow ==
  /\ scr_ranks_world \in 1 .. MaxRanks
  /\ scr_fetch_width \in 1 .. MaxWidth
  /\ pc = [r \in Ranks |-> IF r = 0 THEN "list0" ELSE "recv"]
  /\ success = [r \in Ranks |-> SCR_SUCCESS]
  /\ w = 0
  /\ outstanding = 0
  /\ index = 0
  /\ i = 1
  /\ flags = <<>>
  /\ req = <<>>
  /\ peer = <<>>
  /\ chanGo = [r \in Ranks |-> <<>>]
  /\ chanDone = [r \in Ranks |-> <<>>]
  /\ list_rc = [r \in Ranks |-> "none"]
  /\ go_seen = [r \in Ranks |-> <<>>]
  /\ done_seen = [r \in Ranks |-> <<>>]
  /\ go_after_failure = [r \in Ranks |-> FALSE]
  /\ data_rc = [r \in Ranks |-> "none"]
  /\ files_rc = [r \in Ranks |-> "none"]
  /\ reddesc_rc = "none"
  /\ cache_deleted = [r \in Ranks |-> 0]
  /\ fmap_files = [r \in Ranks |-> FALSE]
  /\ scr_map_is_map \in BOOLEAN
  /\ cache_calls = [r \in Ranks |-> <<"delete_map", "dir_create">>]
  /\ IdleSync
  /\ IdleFile
  /\ IdleList
  /\ IdleSummary

Rank0Step == Rank0FetchList \/ Rank0Post \/ Rank0WaitAny

WorkerStep(r) == RecvGo(r) \/ FetchList(r) \/ SendDone(r)

TailStep(r) == FetchDataReturn(r) \/ FetchFilesReduce(r) \/ ApplyRedundancy(r)

NextFlow ==
  \/ Rank0FetchList
  \/ Rank0Post
  \/ Rank0WaitAny
  \/ \E r \in Workers : RecvGo(r)
  \/ \E r \in Workers : FetchList(r)
  \/ \E r \in Workers : SendDone(r)
  \/ \E r \in Ranks : FetchDataReturn(r)
  \/ \E r \in Ranks : FetchFilesReduce(r)
  \/ \E r \in Ranks : ApplyRedundancy(r)

SpecFlow == InitFlow /\ [][NextFlow]_vars

\* every rank keeps running (MPI makes progress, scr_fetch_files_list terminates)
FairFlow ==
  /\ WF_vars(Rank0Step)
  /\ \A r \in 1 .. MaxRanks : WF_vars(r \in Workers /\ WorkerStep(r))
  /\ \A r \in 0 .. MaxRanks : WF_vars(r \in Ranks /\ TailStep(r))

SpecFlowFair == InitFlow /\ [][NextFlow]_vars /\ FairFlow

(* ------------------------------------------------------------------ *)
(* scr_fetch_files from line 737 on: the cache of the dataset           *)
(* ------------------------------------------------------------------ *)

\* lines 737-756: the files of the dataset are deleted from the cache, the
\* descriptor is stored, the filemap is written, the cache directory is created
CachePrepare(r) ==
  /\ pc[r] = "prepare"
  /\ cache_calls' = [cache_calls EXCEPT ![r] = @ \o <<"delete_map", "dir_create">>]
  /\ fmap_files' = [fmap_files EXCEPT ![r] = CacheDelete(@, TRUE)]
  /\ pc' = [pc EXCEPT ![r] = "data"]
  /\ UNCHANGED <<syncVars, fileVars, listVars, summaryVars>>
  /\ UNCHANGED <<scr_ranks_world, scr_fetch_width, success, w, outstanding, index, i,
                 flags, req, peer, chanGo, chanDone, list_rc, go_seen, done_seen,
                 go_after_failure, data_rc, files_rc, reddesc_rc, cache_deleted,
                 scr_map_is_map>>

\* lines 758-762 and 560-639: scr_fetch_data on rank r up to its scr_alltrue, with
\* the window of SpecFlow left out: the rank fetches its list, which lists the
\* files in the filemap (a list may be empty), or is told not to
CacheFetchData(r) ==
  /\ pc[r] = "data"
  /\ \E rc \in RC, listed \in BOOLEAN, ran \in BOOLEAN :
       /\ r = 0 => ran
       /\ ~ran => rc = SCR_FAILURE /\ ~listed
       /\ list_rc' = [list_rc EXCEPT ![r] = IF ran THEN rc ELSE "none"]
       /\ success' = [success EXCEPT ![r] = rc]
       /\ fmap_files' = [fmap_files EXCEPT ![r] = listed]
  /\ pc' = [pc EXCEPT ![r] = "data_alltrue"]
  /\ UNCHANGED <<syncVars, fileVars, listVars, summaryVars>>
  /\ UNCHANGED <<scr_ranks_world, scr_fetch_width, w, outstanding, index, i,
                 flags, req, peer, chanGo, chanDone, go_seen, done_seen,
                 go_after_failure, data_rc, files_rc, reddesc_rc, cache_deleted,
                 scr_map_is_map, cache_calls>>

InitCache ==
  /\ scr_ranks_world \in 1 .. MaxRanks
  /\ scr_fetch_width = 1
  /\ pc = [r \in Ranks |-> "prepare"]
  /\ success = [r \in Ranks |-> SCR_SUCCESS]
  /\ w = 0
  /\ outstanding = 0
  /\ index = 0
  /\ i = 1
  /\ flags = <<>>
  /\ req = <<>>
  /\ peer = <<>>
  /\ chanGo = [r \in Ranks |-> <<>>]
  /\ chanDone = [r \in Ranks |-> <<>>]
  /\ list_rc = [r \in Ranks |-> "none"]
  /\ go_seen = [r \in Ranks |-> <<>>]
  /\ done_seen = [r \in Ranks |-> <<>>]
  /\ go_after_failure = [r \in Ranks |-> FALSE]
  /\ data_rc = [r \in Ranks |-> "none"]
  /\ files_rc = [r \in Ranks |-> "none"]
  /\ reddesc_rc = "none"
  /\ cache_deleted = [r \in Ranks |-> 0]
  /\ fmap_files \in [Ranks -> BOOLEAN]
  /\ scr_map_is_map \in BOOLEAN
  /\ cache_calls = [r \in Ranks |-> <<>>]
  /\ IdleSync
  /\ IdleFile
  /\ IdleList
  /\ IdleSummary

NextCache ==
  \/ \E r \in Ranks : CachePrepare(r)
  \/ \E r \in Ranks : CacheFetchData(r)
  \/ \E r \in Ranks : FetchDataReturn(r)
  \/ \E r \in Ranks : FetchFilesReduce(r)
  \/ \E r \in Ranks : ApplyRedundancy(r)

SpecCache == InitCache /\ [][NextCache]_vars

(* ------------------------------------------------------------------ *)
(* scr_fetch_sync: the index file and the current symlink               *)
(* ------------------------------------------------------------------ *)

Max(S) == CHOOSE m \in S : \A x \in S : x <= m

\* scr_index_get_id_by_dir: the id of the checkpoint the index lists for a subdirectory
GetIdByDir(idx, dir) == IF dir \in Ids /\ idx[dir].present THEN dir ELSE NoId

\* the ids scr_index_get_most_recent_complete may return: complete, not failed,
\* not above the ceiling (NoId: no ceiling)
Candidates(idx, ceiling) ==
  {k \in Ids : /\ idx[k].present /\ idx[k].complete /\ ~idx[k].failed
               /\ (ceiling = NoId \/ k <= ceiling)}

\* scr_index_get_most_recent_complete: the greatest candidate id, NoId if there is none
MostRecentComplete(idx, ceiling) ==
  IF Candidates(idx, ceiling) = {} THEN NoId ELSE Max(Candidates(idx, ceiling))

\* mutation: the attempt is not recorded in the index
MarkFetchedNot(idx, id) == idx

\* scr_index_mark_fetched
MarkFetched(idx, id) == [idx EXCEPT ![id].fetched = TRUE]

\* mutation: the failure is not recorded in the index
MarkFailedNot(idx, id) == idx

\* scr_index_mark_failed
MarkFailed(idx, id) == [idx EXCEPT ![id].failed = TRUE]

\* scr_file_is_readable(scr_current) and readlink: the target read from the symlink,
\* NoDir when there is no symlink or it cannot be followed
LinkTarget == IF current # NoDir /\ current \in dir_readable THEN current ELSE NoDir

\* symlink(target, scr_current): creates the link; fails (EEXIST) when a link is there
Symlink(tgt, link) == IF link = NoDir THEN tgt ELSE link

\* rank 0 reads the index file
Rank0ReadIndex ==
  /\ spc[0] = "start"
  /\ read_index_file' = index_readable
  /\ index_hash' = IF index_readable THEN index_disk ELSE [k \in Ids |-> AbsentRecord]
  /\ spc' = [spc EXCEPT ![0] = "select"]
  /\ UNCHANGED <<flowVars, fileVars, listVars, summaryVars>>
  /\ UNCHANGED <<entered, index_disk, index_readable, index_start, current, dir_readable,
                 target, current_checkpoint_id, fetch_dir, sync_rc, fetch_attempted,
                 attempts, att_outcome, scr_log_enable, events, filemap, index_writers,
                 link_writers>>

\* the id looked up for this iteration (lines 889-903)
NextCheckpointId(linked) ==
  IF ~read_index_file THEN current_checkpoint_id
  ELSE IF linked # NoDir THEN GetIdByDir(index_hash, linked)
  ELSE MostRecentComplete(index_hash, current_checkpoint_id)

\* the subdirectory chosen for this iteration
NextTarget(linked, id) ==
  IF linked # NoDir THEN linked
  ELSE IF read_index_file /\ id # NoId THEN id
  ELSE NoDir

\* mutation: the flag is set only once the fetch has succeeded, never here
AttemptedFlagNever(old, tgt) == old

\* *fetch_attempted = 1 when there is a target
AttemptedFlag(old, tgt) == IF tgt # NoDir THEN 1 ELSE old

\* mutation: the index is marked and written whether or not it was read
IndexWritableAlways(id) == TRUE

\* read_index_file && current_checkpoint_id != -1 (lines 906 and 939)
IndexWritable(id) == read_index_file /\ id # NoId

\* top of the loop on rank 0: choose the target, record the attempt in the index,
\* build the fetch directory and call scr_fetch_files
Rank0Select ==
  /\ spc[0] = "select"
  /\ LET linked == LinkTarget
         id == NextCheckpointId(linked)
         tgt == NextTarget(linked, id)
         mark == tgt # NoDir /\ IndexWritable(id)
     IN /\ target' = tgt
        /\ current_checkpoint_id' = id
        /\ fetch_attempted' = [fetch_attempted EXCEPT ![0] = AttemptedFlag(@, tgt)]
        /\ index_hash' = IF mark THEN MarkFetched(index_hash, id) ELSE index_hash
        /\ index_disk' = IF mark THEN index_hash' ELSE index_disk
        /\ index_writers' = IF mark THEN index_writers \cup {0} ELSE index_writers
        /\ attempts' = Append(attempts, tgt)
  /\ entered' = [entered EXCEPT ![0] = @ + 1]
  /\ spc' = [spc EXCEPT ![0] = "files"]
  /\ UNCHANGED <<flowVars, fileVars, listVars, summaryVars>>
  /\ UNCHANGED <<index_readable, index_start, current, dir_readable, read_index_file,
                 fetch_dir, sync_rc, att_outcome, scr_log_enable, events, filemap,
                 link_writers>>

\* the ways a call of scr_fetch_files on a non-empty directory can end
Outcomes(dir) ==
  IF dir \in dir_readable
    THEN {"summary", "dataset", "ckpt", "data", "apply", "ok"}
    ELSE {"summary"}

\* the events rank 0 logs in scr_fetch_files
FetchEvents(o) ==
  IF ~scr_log_enable THEN <<>>
  ELSE CASE o \in {"summary", "dataset", "data", "apply"} -> <<"FETCH STARTED", "FETCH FAILED">>
         [] o = "ckpt" -> <<"FETCH STARTED">>
         [] o = "ok" -> <<"FETCH STARTED", "FETCH SUCCEEDED">>

\* the filemap of a rank after scr_fetch_files on dataset dir
FilemapAfter(fmap, dir, o) ==
  CASE o = "ok" -> fmap \cup {dir}
    [] o \in {"data", "apply"} -> fmap \ {dir}
    [] OTHER -> fmap

\* scr_fetch_files on rank r: barrier, broadcast of the fetch directory, then the
\* collective pipeline, whose outcome is the same on every rank
FetchFiles(r) ==
  /\ spc[r] = "files"
  /\ \A q \in Ranks : entered[q] >= entered[r]
  /\ LET k == entered[r]
         dir == attempts[k]
     IN /\ fetch_dir' = [fetch_dir EXCEPT ![r] = dir]
        /\ IF dir = NoDir
             THEN /\ sync_rc' = [sync_rc EXCEPT ![r] = SCR_FAILURE]
                  /\ events' = IF r = 0 THEN <<>> ELSE events
                  /\ UNCHANGED <<att_outcome, filemap>>
             ELSE \E o \in (IF att_outcome.k = k THEN {att_outcome.what} ELSE Outcomes(dir)) :
                    /\ att_outcome' = [k |-> k, what |-> o]
                    /\ sync_rc' = [sync_rc EXCEPT ![r] =
                                     IF o = "ok" THEN SCR_SUCCESS ELSE SCR_FAILURE]
                    /\ events' = IF r = 0 THEN FetchEvents(o) ELSE events
                    /\ filemap' = [filemap EXCEPT ![r] = FilemapAfter(@, dir, o)]
  /\ spc' = [spc EXCEPT ![r] = "after"]
  /\ UNCHANGED <<flowVars, fileVars, listVars, summaryVars>>
  /\ UNCHANGED <<entered, index_disk, index_readable, index_start, current, dir_readable,
                 index_hash, read_index_file, target, current_checkpoint_id,
                 fetch_attempted, attempts, scr_log_enable, index_writers, link_writers>>

\* mutation: a failed attempt ends the loop, no other candidate is tried
RetryNever(r) == FALSE

\* if (strcmp(fetch_dir, "") != 0): there was a fetch directory, so keep fetching
Retry(r) == fetch_dir[r] # NoDir

\* rank r after scr_fetch_files returned (lines 922-948)
AfterAttempt(r) ==
  /\ spc[r] = "after"
  /\ IF sync_rc[r] = SCR_SUCCESS
       THEN /\ current' = IF r = 0 THEN Symlink(target, current) ELSE current
            /\ link_writers' = IF r = 0 /\ current = NoDir
                                 THEN link_writers \cup {r} ELSE link_writers
            /\ spc' = [spc EXCEPT ![r] = "bcast"]
            /\ UNCHANGED <<index_hash, index_disk, index_writers, entered>>
       ELSE /\ current' = NoDir
            /\ link_writers' = IF current # NoDir THEN link_writers \cup {r} ELSE link_writers
            /\ IF Retry(r)
                 THEN /\ LET mark == /\ r = 0 /\ IndexWritable(current_checkpoint_id)
                                     /\ target # NoDir
                         IN /\ index_hash' = IF mark
                                               THEN MarkFailed(index_hash, current_checkpoint_id)
                                               ELSE index_hash
                            /\ index_disk' = IF mark THEN index_hash' ELSE index_disk
                            /\ index_writers' = IF mark THEN index_writers \cup {0}
                                                ELSE index_writers
                      /\ spc' = [spc EXCEPT ![r] = IF r = 0 THEN "select" ELSE "files"]
                      /\ entered' = [entered EXCEPT ![r] = IF r = 0 THEN @ ELSE @ + 1]
                 ELSE /\ spc' = [spc EXCEPT ![r] = "bcast"]
                      /\ UNCHANGED <<index_hash, index_disk, index_writers, entered>>
  /\ UNCHANGED <<flowVars, fileVars, listVars, summaryVars>>
  /\ UNCHANGED <<index_readable, index_start, dir_readable, read_index_file, target,
                 current_checkpoint_id, fetch_dir, sync_rc, fetch_attempted, attempts,
                 att_outcome, scr_log_enable, events, filemap>>

\* mutation: the flag is not broadcast, every rank keeps its own
BcastAttemptedLocal(r) == fetch_attempted[r]

\* MPI_Bcast(fetch_attempted, 1, MPI_INT, 0, scr_comm_world): the value of rank 0
BcastAttempted(r) == fetch_attempted[0]

\* the broadcast of fetch_attempted, then return rc
BcastAndReturn(r) ==
  /\ spc[r] = "bcast"
  /\ spc[0] \in {"bcast", "done"}
  /\ fetch_attempted' = [fetch_attempted EXCEPT ![r] = BcastAttempted(r)]
  /\ spc' = [spc EXCEPT ![r] = "done"]
  /\ UNCHANGED <<flowVars, fileVars, listVars, summaryVars>>
  /\ UNCHANGED <<entered, index_disk, index_readable, index_start, current, dir_readable,
                 index_hash, read_index_file, target, current_checkpoint_id, fetch_dir,
                 sync_rc, attempts, att_outcome, scr_log_enable, events, filemap,
                 index_writers, link_writers>>

\* the index files scr_fetch_sync may find
IndexFiles ==
  [Ids -> {AbsentRecord} \cup
          {[present |-> TRUE, complete |-> c, failed |-> f, fetched |-> FALSE] :
             <<c, f>> \in {<<TRUE, FALSE>>, <<TRUE, TRUE>>, <<FALSE, FALSE>>}}]

InitSync ==
  /\ scr_ranks_world \in 1 .. MaxSyncRanks
  /\ IdleFlow
  /\ IdleFile
  /\ IdleList
  /\ IdleSummary
  /\ index_disk \in IndexFiles
  /\ index_start = index_disk
  /\ index_readable \in BOOLEAN
  /\ current \in {NoDir} \cup Ids
  /\ dir_readable \in {Ids, Ids \ {current}}
  /\ scr_log_enable \in BOOLEAN
  /\ spc = [r \in Ranks |-> IF r = 0 THEN "start" ELSE "files"]
  /\ entered = [r \in Ranks |-> IF r = 0 THEN 0 ELSE 1]
  /\ index_hash = <<>>
  /\ read_index_file = FALSE
  /\ target = NoDir
  /\ current_checkpoint_id = NoId
  /\ fetch_dir = [r \in Ranks |-> NoDir]
  /\ sync_rc = [r \in Ranks |-> SCR_FAILURE]
  /\ fetch_attempted = [r \in Ranks |-> 0]
  /\ attempts = <<>>
  /\ att_outcome = [k |-> 0, what |-> "none"]
  /\ events = <<>>
  /\ filemap = [r \in Ranks |-> {}]
  /\ index_writers = {}
  /\ link_writers = {}

NextSync ==
  \/ Rank0ReadIndex
  \/ Rank0Select
  \/ \E r \in Ranks : FetchFiles(r)
  \/ \E r \in Ranks : AfterAttempt(r)
  \/ \E r \in Ranks : BcastAndReturn(r)

SpecSync == InitSync /\ [][NextSync]_vars

\* some rank that can take a step does take one (no rank has to be preferred:
\* a rank that waits is waiting for a step of another rank)
FairSync == WF_vars(NextSync)

SpecSyncFair == InitSync /\ [][NextSync]_vars /\ FairSync

(* ------------------------------------------------------------------ *)
(* scr_fetch_file_from_containers and scr_fetch_file: one file          *)
(* ------------------------------------------------------------------ *)

\* the containers hash of the summary: id -> bytes of the container file
Containers == (1 :> <<1, 2, 3>>) @@ (2 :> <<4, 5>>)

\* the segment records a summary may hold for a file: container id, offset in
\* the container, length (has_length FALSE: no LENGTH key); id 3 is in no catalogue
SegmentChoices ==
  { [id |-> 1, off |-> 0, len |-> 2, has_length |-> TRUE],
    [id |-> 1, off |-> 1, len |-> 2, has_length |-> TRUE],
    [id |-> 1, off |-> 2, len |-> 2, has_length |-> TRUE],
    [id |-> 2, off |-> 0, len |-> 2, has_length |-> TRUE],
    [id |-> 2, off |-> 1, len |-> 0, has_length |-> TRUE],
    [id |-> 3, off |-> 0, len |-> 1, has_length |-> TRUE],
    [id |-> 1, off |-> 0, len |-> 0, has_length |-> FALSE] }

\* the keys of the segments hash
SegmentKeys == 1 .. MaxSegs

\* the segments hashes: elements with distinct integer keys, in the order listed
SegmentLists ==
  UNION { { s \in [1 .. n -> [key : SegmentKeys, seg : SegmentChoices]] :
              \A a, b \in 1 .. n : a # b => s[a].key # s[b].key } : n \in 0 .. MaxSegs }

\* crc32(0L, Z_NULL, 0)
Crc32Init == 0

\* crc32(c, buf, n) of zlib, as a small order-sensitive checksum
RECURSIVE Crc32(_, _)
Crc32(c, bytes) ==
  IF bytes = <<>> THEN c
  ELSE Crc32((c * 3 + Head(bytes) + 1) % CrcMod, Tail(bytes))

\* the values scr_meta_get_crc32 may find in the meta
MetaCrcs == {NoCrc} \cup (0 .. CrcMod - 1)

\* insertion of element e into a list that is ascending by key
RECURSIVE InsertInt(_, _)
InsertInt(e, list) ==
  IF list = <<>> THEN <<e>>
  ELSE IF e.key < Head(list).key THEN <<e>> \o list
  ELSE <<Head(list)>> \o InsertInt(e, Tail(list))

\* mutation: the segments are read in the order the summary lists them
SortIntNot(list) == list

\* scr_hash_sort_int(segments, SCR_HASH_SORT_ASCENDING)
RECURSIVE SortInt(_)
SortInt(list) ==
  IF list = <<>> THEN <<>>
  ELSE InsertInt(Head(list), SortInt(Tail(list)))

\* scr_container_get_name_size_offset_length succeeds on segment s
ContainerLookup(s) == s.has_length /\ s.id \in DOMAIN Containers

\* the descriptor of the destination file
FdDst == <<"dst", 0>>

\* the descriptor of the container opened for the segment with key k
FdContainer(k) == <<"container", k>>

\* number of passes of the while loop for a segment of len bytes
NumChunks(len, buf_size) == (len + buf_size - 1) \div buf_size

\* mutation: a short read is padded with zero bytes and taken for a full read
CopyChunksPadded(data, pos, remaining, c, out, n, fault, at) ==
  LET avail == SubSeq(data, pos + 1, Min(pos + remaining, Len(data)))
      bytes == avail \o [k \in 1 .. remaining - Len(avail) |-> 0]
  IN [out |-> out \o bytes,
      crc |-> IF scr_crc_on_flush THEN Crc32(c, bytes) ELSE c,
      rc |-> SCR_SUCCESS, err |-> "none"]

\* the while loop over one segment: data are the bytes of the container, pos the
\* file position, n the number of the pass; fault "read" makes the read of pass
\* at return -1, fault "write" makes the write of pass at write nothing
RECURSIVE CopyChunks(_, _, _, _, _, _, _, _)
CopyChunks(data, pos, remaining, c, out, n, fault, at) ==
  IF remaining = 0 THEN [out |-> out, crc |-> c, rc |-> SCR_SUCCESS, err |-> "none"]
  ELSE
    LET count == Min(remaining, scr_file_buf_size)
        avail == SubSeq(data, pos + 1, Min(pos + count, Len(data)))
        nread == IF fault = "read" /\ n = at THEN -1 ELSE Len(avail)
        c2    == IF scr_crc_on_flush THEN Crc32(c, avail) ELSE c
        nwrite == IF fault = "write" /\ n = at THEN -1 ELSE nread
    IN IF nread > 0
       THEN IF nwrite # nread
            THEN [out |-> out, crc |-> c2, rc |-> SCR_FAILURE, err |-> "write"]
            ELSE IF nread < count
                 THEN [out |-> out \o avail, crc |-> c2, rc |-> SCR_FAILURE, err |-> "short"]
                 ELSE CopyChunks(data, pos + nread, remaining - nread, c2,
                                 out \o avail, n + 1, fault, at)
       ELSE [out |-> out, crc |-> c, rc |-> SCR_FAILURE,
             err |-> IF nread < 0 THEN "read" ELSE "short"]

\* faults of the system calls of one pass of the for loop
SegFaults == {"none", "open", "seek", "read", "write", "close"}

\* one fault is injected at most
MayFault(f) == f = "none" \/ ~fault_used

\* the first error once error e has happened ("none": nothing happened)
FirstError(e) == IF first_error = "none" THEN e ELSE first_error

\* lines 141-197: argument checks, open of the destination file, allocation of
\* the buffer, start of the crc, sort of the segments
ReaderOpen ==
  /\ rpc = "start"
  /\ fmode = "containers"
  /\ IF segments_null
     THEN /\ rrc' = SCR_FAILURE
          /\ io_rc' = SCR_FAILURE
          /\ rpc' = "done"
          /\ first_error' = "arguments"
          /\ UNCHANGED <<dst, fd_open, buf_alloc, crc, sorted, fault_used>>
     ELSE \E f \in {"none", "open", "malloc"} :
          /\ fault_used' = (f # "none")
          /\ first_error' = (CASE f = "open" -> "open_dst"
                                [] f = "malloc" -> "malloc"
                                [] OTHER -> "none")
          /\ CASE f = "open" ->
                  /\ rrc' = SCR_FAILURE
                  /\ io_rc' = SCR_FAILURE
                  /\ rpc' = "done"
                  /\ UNCHANGED <<dst, fd_open, buf_alloc, crc, sorted>>
               [] f = "malloc" ->
                  /\ dst' = [exists |-> TRUE, bytes |-> <<>>]
                  /\ rrc' = SCR_FAILURE
                  /\ io_rc' = SCR_FAILURE
                  /\ rpc' = "done"
                  /\ UNCHANGED <<fd_open, buf_alloc, crc, sorted>>
               [] OTHER ->
                  /\ dst' = [exists |-> TRUE, bytes |-> <<>>]
                  /\ fd_open' = {FdDst}
                  /\ buf_alloc' = TRUE
                  /\ crc' = IF scr_crc_on_flush THEN Crc32Init ELSE NoCrc
                  /\ rrc' = SCR_SUCCESS
                  /\ sorted' = SortInt(segments)
                  /\ rpc' = IF segments = <<>> THEN "close" ELSE "loop"
                  /\ UNCHANGED io_rc
  /\ UNCHANGED <<scr_crc_on_flush, scr_file_buf_size, fmode, segments, segments_null, src,
                 seg_i, meta_crc, written_keys, read_keys>>
  /\ UNCHANGED <<flowVars, syncVars, listVars, summaryVars>>

\* lines 199-299: one pass of the for loop over the sorted segments
ReaderSegment ==
  /\ rpc = "loop"
  /\ LET e == sorted[seg_i + 1]
         s == e.seg
         next == IF seg_i + 1 = Len(sorted) THEN "close" ELSE "loop"
     IN IF ~ContainerLookup(s)
        THEN /\ rrc' = SCR_FAILURE
             /\ rpc' = "close"
             /\ first_error' = FirstError("lookup")
             /\ UNCHANGED <<seg_i, fd_open, crc, dst, written_keys, read_keys, fault_used>>
        ELSE \E f \in SegFaults :
             /\ MayFault(f)
             /\ f \in {"read", "write"} => s.len > 0
             /\ fault_used' = (fault_used \/ f # "none")
             /\ CASE f = "open" ->
                     /\ rrc' = SCR_FAILURE
                     /\ rpc' = "close"
                     /\ first_error' = FirstError("open")
                     /\ UNCHANGED <<seg_i, fd_open, crc, dst, written_keys, read_keys>>
                  [] f = "seek" ->
                     /\ rrc' = SCR_FAILURE
                     /\ rpc' = "close"
                     /\ fd_open' = fd_open \cup {FdContainer(e.key)}
                     /\ read_keys' = Append(read_keys, e.key)
                     /\ first_error' = FirstError("seek")
                     /\ UNCHANGED <<seg_i, crc, dst, written_keys>>
                  [] OTHER ->
                     \E at \in 1 .. Max({1, NumChunks(s.len, scr_file_buf_size)}) :
                       LET copy == CopyChunks(Containers[s.id], s.off, s.len, crc,
                                              dst.bytes, 1, f, at)
                       IN /\ f \notin {"read", "write"} => at = 1
                          /\ dst' = [dst EXCEPT !.bytes = copy.out]
                          /\ crc' = copy.crc
                          /\ rrc' = IF copy.rc # SCR_SUCCESS \/ f = "close"
                                    THEN SCR_FAILURE ELSE rrc
                          /\ written_keys' = IF copy.out # dst.bytes
                                             THEN Append(written_keys, e.key)
                                             ELSE written_keys
                          /\ read_keys' = Append(read_keys, e.key)
                          /\ seg_i' = seg_i + 1
                          /\ rpc' = next
                          /\ first_error' = FirstError(IF copy.err # "none" THEN copy.err
                                                        ELSE IF f = "close" THEN "close"
                                                        ELSE "none")
                          /\ UNCHANGED fd_open
  /\ UNCHANGED <<scr_crc_on_flush, scr_file_buf_size, fmode, segments, segments_null, src,
                 sorted, buf_alloc, meta_crc, io_rc>>
  /\ UNCHANGED <<flowVars, syncVars, listVars, summaryVars>>

\* mutation: the crc of the meta is not compared
ReaderVerifyNot(rc, c, m) == rc

\* lines 309-323: rc after the comparison of the crc with the crc m of the meta
ReaderVerify(rc, c, m) ==
  IF rc = SCR_SUCCESS /\ scr_crc_on_flush /\ m # NoCrc /\ c # m THEN SCR_FAILURE ELSE rc

\* lines 301-325: close of the destination file, release of the buffer, crc
\* check; the crc of the meta is read here for the first time
ReaderClose ==
  /\ rpc = "close"
  /\ \E f \in {"none", "close"}, m \in MetaCrcs :
       LET rc == IF f = "close" THEN SCR_FAILURE ELSE rrc
       IN /\ MayFault(f)
          /\ fault_used' = (fault_used \/ f # "none")
          /\ meta_crc' = m
          /\ io_rc' = rc
          /\ rrc' = ReaderVerify(rc, crc, m)
          /\ first_error' = FirstError(CASE f = "close" -> "close_dst"
                                          [] ReaderVerify(rc, crc, m) # rc -> "crc"
                                          [] OTHER -> "none")
  /\ fd_open' = fd_open \ {FdDst}
  /\ buf_alloc' = FALSE
  /\ rpc' = "done"
  /\ UNCHANGED <<scr_crc_on_flush, scr_file_buf_size, fmode, segments, segments_null, src,
                 sorted, seg_i, crc, dst, written_keys, read_keys>>
  /\ UNCHANGED <<flowVars, syncVars, listVars, summaryVars>>

\* scr_copy_to(filename, dst_dir, buf_size, newfile, newfile_size, crc_p): the copy
\* of the source file, with the crc of the bytes when crc_p is set; fault "copy"
\* is an I/O error after the destination file was created
CopyTo(from, f) ==
  IF ~from.readable
  THEN [rc |-> SCR_FAILURE, file |-> NoFile, crc |-> NoCrc]
  ELSE IF f = "copy"
  THEN [rc |-> SCR_FAILURE, file |-> [exists |-> TRUE, bytes |-> <<>>], crc |-> NoCrc]
  ELSE [rc |-> SCR_SUCCESS, file |-> [exists |-> TRUE, bytes |-> from.bytes],
        crc |-> IF scr_crc_on_flush THEN Crc32(Crc32Init, from.bytes) ELSE NoCrc]

\* lines 69-86: rc after the comparison of the crc with the crc m of the meta
FileVerify(rc, c, m) ==
  IF m # NoCrc
  THEN IF rc = SCR_SUCCESS /\ scr_crc_on_flush /\ c # m THEN SCR_FAILURE ELSE rc
  ELSE rc

\* scr_fetch_file, lines 37-89 (the meta built by scr_fetch_files_list always
\* holds a file name, so that the two early returns are not taken)
FetchFile ==
  /\ rpc = "start"
  /\ fmode = "plain"
  /\ \E f \in {"none", "copy"}, m \in MetaCrcs :
       LET copy == CopyTo(src, f)
       IN /\ f = "copy" => src.readable
          /\ fault_used' = (f # "none")
          /\ dst' = copy.file
          /\ crc' = copy.crc
          /\ meta_crc' = m
          /\ io_rc' = copy.rc
          /\ rrc' = FileVerify(copy.rc, copy.crc, m)
          /\ first_error' = (CASE copy.rc # SCR_SUCCESS -> "copy"
                                [] FileVerify(copy.rc, copy.crc, m) # copy.rc -> "crc"
                                [] OTHER -> "none")
  /\ rpc' = "done"
  /\ UNCHANGED <<scr_crc_on_flush, scr_file_buf_size, fmode, segments, segments_null, src,
                 sorted, seg_i, fd_open, buf_alloc, written_keys, read_keys>>
  /\ UNCHANGED <<flowVars, syncVars, listVars, summaryVars>>

\* the source files of a plain fetch
PlainSources ==
  { [readable |-> FALSE, bytes |-> <<>>] } \cup
  { [readable |-> TRUE, bytes |-> b] : b \in {<<>>, <<1>>, <<1, 2>>, <<2, 1>>} }

InitFile ==
  /\ scr_ranks_world = 1
  /\ IdleFlow
  /\ IdleSync
  /\ IdleList
  /\ IdleSummary
  /\ scr_crc_on_flush \in BOOLEAN
  /\ scr_file_buf_size \in 1 .. MaxBuf
  /\ fmode \in {"plain", "containers"}
  /\ IF fmode = "plain"
     THEN /\ src \in PlainSources
          /\ segments = <<>>
          /\ segments_null = FALSE
     ELSE /\ src = [readable |-> FALSE, bytes |-> <<>>]
          /\ segments_null \in BOOLEAN
          /\ segments \in (IF segments_null THEN {<<>>} ELSE SegmentLists)
  /\ rpc = "start"
  /\ sorted = <<>>
  /\ seg_i = 0
  /\ fd_open = {}
  /\ buf_alloc = FALSE
  /\ crc = NoCrc
  /\ rrc = SCR_SUCCESS
  /\ dst = NoFile
  /\ meta_crc = NoCrc
  /\ io_rc = "none"
  /\ written_keys = <<>>
  /\ read_keys = <<>>
  /\ fault_used = FALSE
  /\ first_error = "none"

NextFile ==
  \/ ReaderOpen
  \/ ReaderSegment
  \/ ReaderClose
  \/ FetchFile

SpecFile == InitFile /\ [][NextFile]_vars

(* ------------------------------------------------------------------ *)
(* scr_fetch_files_list: the files of one rank                          *)
(* ------------------------------------------------------------------ *)

\* the base names of the files of the list; newfile is dir/name
FileNames == {"a", "b"}

\* no COMPLETE key in the hash of a file
NoFlag == -1

\* expected number of files not set
NoCount == -1

\* the directory part of the key of a file in the file list (<<>>: bare name)
KeyDirs == {<<>>, <<"k">>}

\* the values of the PATH key of a file
SourceDirs == {<<"p">>, <<"p", "q">>}

\* the cache directories
CacheDirs == {<<"c">>, <<"c", "d">>}

\* scr_split_path(file, path, name): directory part and base name
SplitPath(f) == [path |-> SubSeq(f, 1, Len(f) - 1), name |-> f[Len(f)]]

\* scr_build_path(buf, size, path, file): path/file
BuildPath(path, f) == path \o f

\* no scr_copy_to call so far
NoCopy == [key |-> <<>>, from_dir |-> <<>>, src |-> <<>>, dst |-> <<>>]

\* the hashes the summary may hold for a file: NOFETCH marker, SIZE, COMPLETE
\* flag, and the source of the bytes (PATH of a plain file, SEGMENT hash of a
\* file in containers)
FileEntries ==
  { f \in [name : FileNames, no_fetch : BOOLEAN, has_size : BOOLEAN,
            complete : {NoFlag, 0, 1}, has_source : BOOLEAN,
            key_dir : KeyDirs, from_dir : SourceDirs \cup {<<>>}] :
      f.from_dir = <<>> <=> (~f.has_source \/ have_containers) }

\* no file is being processed
NoEntry ==
  [name |-> "", no_fetch |-> FALSE, has_size |-> FALSE, complete |-> NoFlag,
   has_source |-> FALSE, key_dir |-> <<>>, from_dir |-> <<>>]

\* mutation: the file is not added to the filemap
AddFileNot(m, name) == m

\* scr_filemap_add_file: the path is listed; a meta already set is kept
AddFile(m, name) == [m EXCEPT ![name] = IF @ = "absent" THEN "added" ELSE @]

\* scr_filemap_set_meta with a meta whose complete flag is c
SetMeta(m, name, c) == [m EXCEPT ![name] = IF c = 1 THEN "complete" ELSE "incomplete"]

\* mutation: the filemap file is not written before the file is fetched
FilemapWriteNot(m, disk) == disk

\* line 384: the filemap file after scr_filemap_write(scr_map_file, map)
FilemapWrite(m, disk) == m

\* what the fetch of file f may do, lines 420-445: whether the destination file
\* was created, and the rc; without a SEGMENT hash (lines 154-159) or a PATH
\* (lines 440-444) nothing is created, and a fetch that succeeds created the file
FetchOutcomes(f) ==
  IF ~f.has_source
  THEN { [created |-> FALSE, rc |-> SCR_FAILURE] }
  ELSE { [created |-> FALSE, rc |-> SCR_FAILURE],
         [created |-> TRUE, rc |-> SCR_FAILURE],
         [created |-> TRUE, rc |-> SCR_SUCCESS] }

\* the entry of the log of processed files
Processed(f, what) ==
  [name |-> f.name, what |-> what, complete |-> f.complete, no_fetch |-> f.no_fetch,
   via |-> IF have_containers THEN "containers" ELSE "plain"]

\* lines 369-379 and 407: newfile, the destination and the file name of the meta
NewFile(key) == BuildPath(cache_dir, <<SplitPath(key).name>>)

\* lines 430-433 and 44-67: for the file with key key and PATH from_dir, the file
\* that scr_fetch_file hands to scr_copy_to and the file scr_copy_to writes,
\* dst_dir/basename of the file it reads
FetchFilePaths(key, from_dir) ==
  LET meta_filename == NewFile(key)
      filename == BuildPath(from_dir, meta_filename)
  IN [key |-> key, from_dir |-> from_dir, src |-> filename,
      dst |-> BuildPath(cache_dir, <<SplitPath(filename).name>>)]

\* lines 350-418: the next file of the list, up to the meta of the file
ListNext ==
  /\ lpc = "loop"
  /\ lk < nfiles
  /\ \E f \in FileEntries :
       IF f.no_fetch
       THEN /\ lk' = lk + 1
            /\ processed' = Append(processed, Processed(f, "skipped"))
            /\ UNCHANGED <<lpc, file, map, map_disk, lrc, my_num_files>>
       ELSE /\ my_num_files' = my_num_files + 1
            /\ map' = AddFile(map, f.name)
            /\ map_disk' = FilemapWrite(AddFile(map, f.name), map_disk)
            /\ IF ~f.has_size
               THEN /\ lrc' = SCR_FAILURE
                    /\ lpc' = "finish"
                    /\ processed' = Append(processed, Processed(f, "nosize"))
                    /\ UNCHANGED <<lk, file>>
               ELSE /\ file' = f
                    /\ lpc' = "fetch"
                    /\ UNCHANGED <<lk, lrc, processed>>
  /\ UNCHANGED <<have_containers, nfiles, expected_files, cache_files, cache_dir, copied>>
  /\ UNCHANGED <<flowVars, syncVars, fileVars, summaryVars>>

\* lines 420-453: the fetch of the file and the meta recorded in the filemap
ListFetch ==
  /\ lpc = "fetch"
  /\ \E o \in FetchOutcomes(file) :
       /\ cache_files' = IF o.created THEN cache_files \cup {file.name} ELSE cache_files
       /\ lrc' = IF o.rc # SCR_SUCCESS THEN SCR_FAILURE ELSE lrc
       /\ map' = SetMeta(map, file.name, IF o.rc # SCR_SUCCESS THEN 0 ELSE 1)
       /\ processed' = Append(processed,
            Processed(file, CASE ~file.has_source -> "nosource"
                              [] file.has_source /\ ~o.created -> "nofile"
                              [] o.created /\ o.rc # SCR_SUCCESS -> "partial"
                              [] OTHER -> "fetched"))
  /\ copied' = IF have_containers \/ ~file.has_source THEN copied
                ELSE FetchFilePaths(BuildPath(file.key_dir, <<file.name>>), file.from_dir)
  /\ lk' = lk + 1
  /\ file' = NoEntry
  /\ lpc' = "loop"
  /\ UNCHANGED <<have_containers, nfiles, map_disk, expected_files, my_num_files, cache_dir>>
  /\ UNCHANGED <<flowVars, syncVars, fileVars, summaryVars>>

\* lines 456-460: the expected number of files, and the last write of the filemap
ListFinish ==
  /\ lpc = "finish" \/ (lpc = "loop" /\ lk = nfiles)
  /\ expected_files' = <<my_num_files, my_num_files>>
  /\ map_disk' = map
  /\ lpc' = "done"
  /\ UNCHANGED <<have_containers, nfiles, lk, file, map, cache_files, lrc, my_num_files,
                 processed, cache_dir, copied>>
  /\ UNCHANGED <<flowVars, syncVars, fileVars, summaryVars>>

InitList ==
  /\ scr_ranks_world = 1
  /\ IdleFlow
  /\ IdleSync
  /\ IdleFile
  /\ IdleSummary
  /\ have_containers \in BOOLEAN
  /\ nfiles \in 0 .. MaxFiles
  /\ lpc = "loop"
  /\ lk = 0
  /\ file = NoEntry
  /\ map = [n \in FileNames |-> "absent"]
  /\ map_disk = [n \in FileNames |-> "absent"]
  /\ expected_files = <<NoCount, NoCount>>
  /\ cache_files = {}
  /\ lrc = SCR_SUCCESS
  /\ my_num_files = 0
  /\ processed = <<>>
  /\ cache_dir \in CacheDirs
  /\ copied = NoCopy

NextList ==
  \/ ListNext
  \/ ListFetch
  \/ ListFinish

SpecList == InitList /\ [][NextList]_vars

(* ------------------------------------------------------------------ *)
(* scr_fetch_summary: the summary file is read by rank 0 and scattered  *)
(* ------------------------------------------------------------------ *)

\* the directory the summary file is read from
SummaryDir == "dir"

\* a summary hash without content
EmptySummary ==
  [dataset |-> NoId, containers |-> {}, ranks |-> {}, files |-> [r \in Ranks |-> {}]]

\* the summary files: a dataset, the containers, and under RANK2FILE the ranks
\* that have an entry, each with its files
SummaryFiles ==
  UNION { { [dataset |-> d, containers |-> c, ranks |-> rs, files |-> fs] :
              d \in Ids, c \in SUBSET {1},
              fs \in { g \in [Ranks -> SUBSET FileNames] :
                         \A r \in Ranks \ rs : g[r] = {} } } : rs \in SUBSET Ranks }

\* a file_list without content
EmptyFileList ==
  [dataset |-> NoId, has_containers |-> FALSE, containers |-> {},
   has_files |-> FALSE, files |-> {}]

\* the order of the steps of scr_fetch_summary
SmStage(p) ==
  CASE p = "read" -> 0
    [] p = "bcast_rc" -> 1
    [] p = "dataset" -> 2
    [] p = "containers" -> 3
    [] p = "files" -> 4
    [] p = "return" -> 5
    [] p = "done" -> 6

\* rank 0 has entered the collective that rank r is in
RootEntered(r) == SmStage(smpc[0]) >= SmStage(smpc[r])

\* lines 473-483: rank 0 checks the directory and reads the summary file
SummaryRead ==
  /\ smpc[0] = "read"
  /\ \E o \in {"noaccess", "unreadable", "ok"} :
       /\ summary_read' = o
       /\ summary_rc' = [summary_rc EXCEPT ![0] = IF o = "ok" THEN SCR_SUCCESS
                                                   ELSE SCR_FAILURE]
       /\ summary_hash' = IF o = "ok" THEN summary_file ELSE EmptySummary
  /\ smpc' = [smpc EXCEPT ![0] = "bcast_rc"]
  /\ UNCHANGED <<summary_file, file_list, collectives>>
  /\ UNCHANGED <<flowVars, syncVars, fileVars, listVars>>

\* mutation: the rc of rank 0 is not received
BcastRcLocal(r) == summary_rc[r]

\* MPI_Bcast(&rc, 1, MPI_INT, 0, scr_comm_world): the rc of rank 0
BcastRc(r) == summary_rc[0]

\* line 486: the broadcast of rc, and the test of line 489
SummaryBcastRc(r) ==
  /\ smpc[r] = "bcast_rc"
  /\ RootEntered(r)
  /\ summary_rc' = [summary_rc EXCEPT ![r] = BcastRc(r)]
  /\ collectives' = [collectives EXCEPT ![r] = @ \cup {"rc"}]
  /\ smpc' = [smpc EXCEPT ![r] = IF BcastRc(r) = SCR_SUCCESS THEN "dataset" ELSE "return"]
  /\ UNCHANGED <<summary_file, summary_read, summary_hash, file_list>>
  /\ UNCHANGED <<flowVars, syncVars, fileVars, listVars>>

\* lines 490-497: the dataset of the summary is broadcast and set in file_list
SummaryDataset(r) ==
  /\ smpc[r] = "dataset"
  /\ RootEntered(r)
  /\ file_list' = [file_list EXCEPT ![r].dataset = summary_hash.dataset]
  /\ collectives' = [collectives EXCEPT ![r] = @ \cup {"dataset"}]
  /\ smpc' = [smpc EXCEPT ![r] = "containers"]
  /\ UNCHANGED <<summary_file, summary_read, summary_hash, summary_rc>>
  /\ UNCHANGED <<flowVars, syncVars, fileVars, listVars>>

\* lines 502-512: the containers are broadcast, and set in file_list if there are any
SummaryContainers(r) ==
  /\ smpc[r] = "containers"
  /\ RootEntered(r)
  /\ file_list' = [file_list EXCEPT
                     ![r].has_containers = Cardinality(summary_hash.containers) > 0,
                     ![r].containers = summary_hash.containers]
  /\ collectives' = [collectives EXCEPT ![r] = @ \cup {"containers"}]
  /\ smpc' = [smpc EXCEPT ![r] = "files"]
  /\ UNCHANGED <<summary_file, summary_read, summary_hash, summary_rc>>
  /\ UNCHANGED <<flowVars, syncVars, fileVars, listVars>>

\* mutation: every rank receives the entry of rank 0
ExchangeRecvRoot(h, r) ==
  [received |-> 0 \in h.ranks, files |-> h.files[0]]

\* scr_hash_exchange(send_hash, recv_hash, scr_comm_world) with the RANK hash of
\* rank 0 as send_hash: rank r receives the entry keyed by r, if there is one
ExchangeRecv(h, r) ==
  [received |-> r \in h.ranks, files |-> h.files[r]]

\* lines 514-551: the files of the rank are received and set in file_list, and
\* PATH is set on each of them
SummaryScatter(r) ==
  /\ smpc[r] = "files"
  /\ RootEntered(r)
  /\ LET recv == ExchangeRecv(summary_hash, r)
     IN file_list' = [file_list EXCEPT
                        ![r].has_files = recv.received,
                        ![r].files = IF recv.received
                                     THEN {[name |-> n, path |-> SummaryDir] : n \in recv.files}
                                     ELSE {}]
  /\ collectives' = [collectives EXCEPT ![r] = @ \cup {"exchange"}]
  /\ smpc' = [smpc EXCEPT ![r] = "return"]
  /\ UNCHANGED <<summary_file, summary_read, summary_hash, summary_rc>>
  /\ UNCHANGED <<flowVars, syncVars, fileVars, listVars>>

\* lines 553-556: the summary hash is deleted and rc returned
SummaryReturn(r) ==
  /\ smpc[r] = "return"
  /\ smpc' = [smpc EXCEPT ![r] = "done"]
  /\ UNCHANGED <<summary_file, summary_read, summary_hash, summary_rc, file_list,
                 collectives>>
  /\ UNCHANGED <<flowVars, syncVars, fileVars, listVars>>

InitSummary ==
  /\ scr_ranks_world \in 1 .. MaxSyncRanks
  /\ IdleFlow
  /\ IdleSync
  /\ IdleFile
  /\ IdleList
  /\ summary_file \in SummaryFiles
  /\ summary_read = "none"
  /\ summary_hash = EmptySummary
  /\ summary_rc = [r \in Ranks |-> SCR_FAILURE]
  /\ file_list = [r \in Ranks |-> EmptyFileList]
  /\ collectives = [r \in Ranks |-> {}]
  /\ smpc = [r \in Ranks |-> IF r = 0 THEN "read" ELSE "bcast_rc"]

NextSummary ==
  \/ SummaryRead
  \/ \E r \in Ranks : SummaryBcastRc(r)
  \/ \E r \in Ranks : SummaryDataset(r)
  \/ \E r \in Ranks : SummaryContainers(r)
  \/ \E r \in Ranks : SummaryScatter(r)
  \/ \E r \in Ranks : SummaryReturn(r)

SpecSummary == InitSummary /\ [][NextSummary]_vars

(* ------------------------------------------------------------------ *)
(* Claims about scr_fetch_data (SpecFlow, SpecFlowFair)                 *)
(* ------------------------------------------------------------------ *)

\* the ranks that have received their go and have not yet sent their done
Fetching == {r \in Workers : pc[r] \in {"list", "send"}}

\* C1: at any time at most min(fetch_width, world_size - 1) ranks other than 0 have
\* received their go and not yet sent their done
C1_ConcurrencyBound ==
  Cardinality(Fetching) <= Min(scr_fetch_width, scr_ranks_world - 1)

\* the window is full (2 of 3 workers fetching) after a first rank has already finished
C1_Witness ==
  /\ scr_ranks_world = 4 /\ scr_fetch_width = 2
  /\ Cardinality(Fetching) = 2
  /\ \E r \in Workers : pc[r] = "data_alltrue"

\* every rank is back from scr_fetch_data, each worker got exactly one go, rank 0 got
\* exactly one done from each worker, and no message or request is left pending
FlowFinished ==
  /\ \A r \in Ranks : Stage(pc[r]) >= 2
  /\ \A r \in Workers :
       /\ Len(go_seen[r]) = 1 /\ Len(done_seen[r]) = 1
       /\ chanGo[r] = <<>> /\ chanDone[r] = <<>>
  /\ outstanding = 0
  /\ \A s \in DOMAIN req : req[s] = "null"

\* C2: with fair delivery and a terminating file-list fetch, the flow control ends:
\* rank 0 leaves the window loop, every rank returns, every worker received exactly
\* one go and rank 0 exactly one done per worker, nothing is left unmatched
C2_FlowTerminates == <>[]FlowFinished

\* a finished run in which the window (2) was narrower than the number of workers (3)
C2_Witness ==
  /\ scr_ranks_world = 4 /\ scr_fetch_width = 2
  /\ FlowFinished
  /\ \A r \in Ranks : pc[r] = "return"

\* the value of the go sent to r ("none" before it is sent)
GoValue(r) ==
  IF Len(chanGo[r]) > 0 THEN Head(chanGo[r])
  ELSE IF Len(go_seen[r]) > 0 THEN go_seen[r][1] ELSE "none"

\* the value of the done sent by r ("none" before it is sent)
DoneValue(r) ==
  IF Len(chanDone[r]) > 0 THEN Head(chanDone[r])
  ELSE IF Len(done_seen[r]) > 0 THEN done_seen[r][1] ELSE "none"

\* C3: a go sent after rank 0 observed a failure carries failure, and a rank that
\* receives a go carrying failure does not run scr_fetch_files_list and replies failure
C3_FailurePropagation ==
  \A r \in Workers :
    /\ (GoValue(r) # "none" /\ go_after_failure[r]) => GoValue(r) = SCR_FAILURE
    /\ (Len(go_seen[r]) > 0 /\ go_seen[r][1] = SCR_FAILURE) =>
         /\ pc[r] # "list"
         /\ list_rc[r] = "none"
         /\ DoneValue(r) \in {"none", SCR_FAILURE}

\* rank 0's own files were fine, a worker's reply carried failure, and a later rank
\* got a failing go, skipped its files and replied failure
C3_Witness ==
  /\ list_rc[0] = SCR_SUCCESS
  /\ \E r \in Workers :
       /\ go_after_failure[r]
       /\ go_seen[r] = <<SCR_FAILURE>>
       /\ list_rc[r] = "none"
       /\ done_seen[r] = <<SCR_FAILURE>>

\* some rank's scr_fetch_files_list failed
SomeListFailed == \E q \in Ranks : list_rc[q] = SCR_FAILURE

\* C4: if scr_fetch_files_list fails on any rank, scr_fetch_data and scr_fetch_files
\* return failure on every rank; in all cases all ranks get the same return values
C4_FailureFencing ==
  \A r \in Ranks :
    /\ (data_rc[r] # "none" /\ SomeListFailed) => data_rc[r] = SCR_FAILURE
    /\ (files_rc[r] # "none" /\ SomeListFailed) => files_rc[r] = SCR_FAILURE
    /\ \A q \in Ranks :
         /\ (data_rc[r] # "none" /\ data_rc[q] # "none") => data_rc[r] = data_rc[q]
         /\ (files_rc[r] # "none" /\ files_rc[q] # "none") => files_rc[r] = files_rc[q]

\* only the last rank failed its files, and every rank has returned failure
C4_Witness ==
  /\ scr_ranks_world = 3
  /\ list_rc = [r \in Ranks |-> IF r = 2 THEN SCR_FAILURE ELSE SCR_SUCCESS]
  /\ \A r \in Ranks : data_rc[r] = SCR_FAILURE /\ files_rc[r] = SCR_FAILURE

\* rank 0 sends the go to rank i in this step
SendsGo == i' = i + 1

\* the ranks whose done rank 0 has observed
DoneObserved == {r \in Workers : done_seen[r] # <<>>}

\* C17 (as stated): with window w, rank 0 observes the done of rank i before it
\* sends the go to rank i + w.
C17_WindowOrdering ==
  [][SendsGo /\ i > w => (i - w) \in DoneObserved]_vars

\* C17 (amended): rank 0 sends the go to a rank only after it observed the done
\* of the rank that used the same request slot before, and the done of at least
\* i - min(scr_fetch_width, scr_ranks_world - 1) ranks.
C17_SlotOrdering ==
  [][SendsGo =>
       /\ peer[index] # 0 => peer[index] \in DoneObserved
       /\ Cardinality(DoneObserved) >= i - Min(scr_fetch_width, scr_ranks_world - 1)]_vars

\* the go to rank 3 was sent in the slot of rank 2, before the done of rank 1
C17_Witness ==
  /\ w = 2
  /\ i = 4
  /\ peer[1] = 3
  /\ DoneObserved = {2}

(* ------------------------------------------------------------------ *)
(* Claims about scr_fetch_sync (SpecSync)                               *)
(* ------------------------------------------------------------------ *)

\* rank 0 attempted subdirectory k in this call
Attempted(k) == \E j \in 1 .. Len(attempts) : attempts[j] = k

\* the target of the last call of scr_fetch_files
LastTarget == IF attempts = <<>> THEN NoDir ELSE attempts[Len(attempts)]

\* C6: when scr_fetch_sync returns success the current symlink names the subdirectory
\* of the checkpoint that was fetched, and when it returns failure there is no symlink
C6_CurrentPointer ==
  spc[0] = "done" =>
    /\ (sync_rc[0] = SCR_SUCCESS => current = LastTarget)
    /\ (sync_rc[0] = SCR_FAILURE => current = NoDir)

\* the records that were complete and not failed when scr_fetch_sync started
StartCandidates ==
  {k \in Ids : /\ index_start[k].present /\ index_start[k].complete
               /\ ~index_start[k].failed}

FirstFromIndexedLink ==
  /\ attempts # <<>>
  /\ GetIdByDir(index_start, attempts[1]) # NoId

SomeCandidate == \E j \in 1 .. Len(attempts) : attempts[j] # NoDir

\* C8: when scr_fetch_sync returns on a rank, fetch_attempted is 1 there iff rank 0
\* selected a candidate; with no candidate it is 0 and the return value is failure
C8_FetchAttempted ==
  \A r \in Ranks :
    spc[r] = "done" =>
      /\ fetch_attempted[r] \in {0, 1}
      /\ (fetch_attempted[r] = 1 <=> SomeCandidate)
      /\ (~SomeCandidate => fetch_attempted[r] = 0 /\ sync_rc[r] = SCR_FAILURE)

\* two ranks have returned failure after a candidate was tried; both flags are 1
C8_Witness ==
  /\ scr_ranks_world = 2
  /\ \A r \in Ranks : spc[r] = "done" /\ fetch_attempted[r] = 1 /\ sync_rc[r] = SCR_FAILURE
  /\ SomeCandidate

\* no candidate at all: both ranks return failure with the flag still 0
C8_WitnessNone ==
  /\ scr_ranks_world = 2
  /\ \A r \in Ranks : spc[r] = "done" /\ fetch_attempted[r] = 0 /\ sync_rc[r] = SCR_FAILURE
  /\ attempts = <<NoDir>>

(* ------------------------------------------------------------------ *)
(* Claims about the fetch of one file (SpecFile)                        *)
(* ------------------------------------------------------------------ *)

\* the byte range container[off, off + len) of segment s
SegmentBytes(s) == SubSeq(Containers[s.id], s.off + 1, s.off + s.len)

\* the byte ranges of the elements of S, least key first
RECURSIVE ConcatAscending(_)
ConcatAscending(S) ==
  IF S = {} THEN <<>>
  ELSE LET m == CHOOSE e \in S : \A t \in S : e.key <= t.key
       IN SegmentBytes(m.seg) \o ConcatAscending(S \ {m})

Elements(list) == {list[k] : k \in 1 .. Len(list)}

StrictlyAscending(ks) == \A a, b \in 1 .. Len(ks) : a < b => ks[a] < ks[b]

ReaderSucceeded == fmode = "containers" /\ rpc = "done" /\ rrc = SCR_SUCCESS

\* C9: whatever the order in which the summary lists the segments, a successful
\* scr_fetch_file_from_containers leaves the destination file equal to the
\* concatenation, in ascending order of the segments, of the byte ranges
\* container[offset, offset + length) of the segments, and the segments are
\* written in strictly ascending order.
C9_Reconstruction ==
  /\ ReaderSucceeded =>
        /\ dst.exists
        /\ dst.bytes = ConcatAscending(Elements(segments))
  /\ fmode = "containers" => StrictlyAscending(written_keys)

\* two segments listed in descending order were reconstructed, each of two bytes
C9_Witness ==
  /\ ReaderSucceeded
  /\ Len(segments) = 2
  /\ segments[1].key > segments[2].key
  /\ written_keys = <<segments[2].key, segments[1].key>>
  /\ Len(dst.bytes) = 4

CrcChecked == scr_crc_on_flush /\ meta_crc # NoCrc

\* C10: with scr_crc_on_flush on and a crc recorded in the meta, the fetch of a
\* file (scr_fetch_file or scr_fetch_file_from_containers) succeeds only if the
\* crc of the bytes written equals the recorded crc, and a mismatch makes the
\* fetch fail; with scr_crc_on_flush off or no crc recorded, the result is the
\* result of the transfer.
C10_CrcVerification ==
  rpc = "done" =>
    /\ CrcChecked /\ rrc = SCR_SUCCESS =>
          dst.exists /\ Crc32(Crc32Init, dst.bytes) = meta_crc
    /\ CrcChecked /\ io_rc = SCR_SUCCESS /\ Crc32(Crc32Init, dst.bytes) # meta_crc =>
          rrc = SCR_FAILURE
    /\ ~CrcChecked => rrc = io_rc

\* a reconstruction whose transfer succeeded fails on the crc of the meta
C10_Witness ==
  /\ rpc = "done"
  /\ fmode = "containers"
  /\ CrcChecked
  /\ io_rc = SCR_SUCCESS
  /\ rrc = SCR_FAILURE
  /\ Len(dst.bytes) = 4

\* a plain file whose copy succeeded is accepted on the crc of the meta
C10_WitnessPlain ==
  /\ rpc = "done"
  /\ fmode = "plain"
  /\ CrcChecked
  /\ rrc = SCR_SUCCESS
  /\ Len(dst.bytes) = 2

\* C18: when scr_fetch_file_from_containers returns, on success and on every
\* error path, every descriptor it opened is closed and the buffer is freed.
C18_DescriptorRelease ==
  fmode = "containers" /\ rpc = "done" => fd_open = {} /\ ~buf_alloc

\* the errors of a segment that the claim names
SegmentErrors == {"lookup", "open", "seek", "short", "read", "write"}

\* C20: after the first error in a segment (lookup, open, seek, short read,
\* read error, write error) no later segment is read from a container, no
\* further byte is written to the destination, and failure is returned.
C20_AbortOnFirstError ==
  /\ [][(first_error \in SegmentErrors) => (read_keys' = read_keys /\ dst' = dst)]_vars
  /\ [](rpc = "done" /\ first_error \in SegmentErrors => rrc = SCR_FAILURE)

\* the segment names a container id that the catalogue does not hold
UnknownContainer(s) == s.id \notin DOMAIN Containers

\* the number of bytes the container of segment s holds from its offset on, up
\* to the length of the segment
Readable(s) ==
  IF UnknownContainer(s) THEN 0
  ELSE Min(s.len, Max({0, Len(Containers[s.id]) - s.off}))

\* fewer bytes than its length can be read for segment s
ShortSegment(s) == ~UnknownContainer(s) /\ s.has_length /\ Readable(s) < s.len

\* the bytes that the segments of the list can supply at most
RECURSIVE ReadableTotal(_)
ReadableTotal(list) ==
  IF list = <<>> THEN 0 ELSE Readable(Head(list).seg) + ReadableTotal(Tail(list))

\* every segment resolves and is either empty or fully readable, and no system
\* call failed
CleanSegments ==
  /\ ~fault_used
  /\ \A k \in 1 .. Len(segments) :
        /\ segments[k].seg.has_length
        /\ ~UnknownContainer(segments[k].seg)
        /\ ~ShortSegment(segments[k].seg)

\* C21: scr_fetch_file_from_containers returns failure when a segment names a
\* container id that is not in the containers hash, or when fewer bytes than the
\* length of a segment can be read from its container at its offset, and the
\* destination is never padded; a zero-length segment of a known container adds
\* no bytes and does not by itself make the reconstruction fail.
C21_ErrorOutcomes ==
  fmode = "containers" /\ rpc = "done" /\ ~segments_null =>
    /\ (\E k \in 1 .. Len(segments) : UnknownContainer(segments[k].seg)) =>
          rrc = SCR_FAILURE
    /\ (\E k \in 1 .. Len(segments) : ShortSegment(segments[k].seg)) =>
          rrc = SCR_FAILURE
    /\ Len(dst.bytes) <= ReadableTotal(segments)
    /\ CleanSegments =>
          /\ io_rc = SCR_SUCCESS
          /\ dst.bytes = ConcatAscending(Elements(segments))
          /\ Len(dst.bytes) =
               ReadableTotal(SelectSeq(segments, LAMBDA e : e.seg.len > 0))

\* a zero-length segment was passed without error, then a segment whose
\* container ends before its length made the reconstruction fail
C21_Witness ==
  /\ fmode = "containers"
  /\ rpc = "done"
  /\ Len(sorted) = 2
  /\ sorted[1].seg.len = 0
  /\ ShortSegment(sorted[2].seg)
  /\ read_keys = <<sorted[1].key, sorted[2].key>>
  /\ first_error = "short"
  /\ rrc = SCR_FAILURE
  /\ Len(dst.bytes) = 1

(* ------------------------------------------------------------------ *)
(* Claims about scr_fetch_files_list (SpecList)                         *)
(* ------------------------------------------------------------------ *)

\* the paths the filemap file lists
ListedOnDisk == {n \in FileNames : map_disk[n] # "absent"}

\* C5: for every file that is fetched, the destination path is in the filemap
\* file before the destination file is created; so in every state, every
\* destination file in the cache is listed in the filemap file.
C5_FilemapBeforeFile ==
  /\ [](cache_files \subseteq ListedOnDisk)
  /\ [][cache_files' \ cache_files \subseteq ListedOnDisk]_vars

\* both files were created, the second after a failed fetch of the first
C5_Witness ==
  /\ cache_files = FileNames
  /\ lrc = SCR_FAILURE
  /\ lpc = "loop"

\* the positions in the log of the files that were not skipped and go to path n
Visits(n) == {k \in 1 .. Len(processed) : processed[k].name = n /\ processed[k].what # "skipped"}

\* what happened to the last file that goes to path n
LastVisit(n) == processed[Max(Visits(n))].what

\* C19: when scr_fetch_files_list returns, every file of the list was visited,
\* and every file not marked NOFETCH has a meta in the filemap whose complete flag
\* is 1 if its fetch succeeded and 0 otherwise, whatever the error.
C19_BestEffort ==
  lpc = "done" =>
    /\ lk = nfiles
    /\ \A n \in FileNames :
          Visits(n) # {} =>
            map_disk[n] = (IF LastVisit(n) = "fetched" THEN "complete" ELSE "incomplete")

\* the files the filemap file lists
FilesOnDisk == {n \in FileNames : map_disk[n] # "absent"}

\* the files of the list visited so far that carry no NOFETCH marker
Fetchable == SelectSeq(processed, LAMBDA e : ~e.no_fetch)

\* the step visits a file that carries the NOFETCH marker
VisitsNoFetch ==
  /\ Len(processed') = Len(processed) + 1
  /\ processed'[Len(processed')].no_fetch

\* the files without NOFETCH marker have pairwise distinct base names
DistinctNames ==
  \A a, b \in 1 .. Len(Fetchable) : a # b => Fetchable[a].name # Fetchable[b].name

\* a file with the NOFETCH marker is not added to the filemap and not copied
NoFetchSkipped ==
  [][VisitsNoFetch => /\ map' = map
                      /\ map_disk' = map_disk
                      /\ cache_files' = cache_files
                      /\ my_num_files' = my_num_files]_vars

\* C22: a file with the NOFETCH marker is never added to the filemap and never
\* copied; when scr_fetch_files_list returns, the expected number of files is
\* written to the filemap file and equals the number of files this run added to
\* the filemap, which is the number of visited files without NOFETCH marker.
C22_ExpectedCount ==
  /\ NoFetchSkipped
  /\ [](lpc = "done" =>
          /\ expected_files = <<Len(Fetchable), Len(Fetchable)>>
          /\ Cardinality(FilesOnDisk) = Len(Fetchable))

\* C22, amended: the expected number of files is the number of visited files
\* without NOFETCH marker; the filemap lists exactly as many files when their
\* base names are pairwise distinct, and never more.
C22_ExpectedCountOfVisits ==
  /\ NoFetchSkipped
  /\ [](lpc = "done" =>
          /\ expected_files = <<Len(Fetchable), Len(Fetchable)>>
          /\ Cardinality(FilesOnDisk) <= Len(Fetchable)
          /\ DistinctNames => Cardinality(FilesOnDisk) = Len(Fetchable))

\* one file with the NOFETCH marker was skipped, one without was added
C22_Witness ==
  /\ lpc = "done"
  /\ Len(processed) = 2
  /\ processed[1].no_fetch
  /\ ~processed[2].no_fetch
  /\ processed[1].name # processed[2].name
  /\ expected_files = <<1, 1>>
  /\ FilesOnDisk = {processed[2].name}

\* a file of a list without containers was handed to scr_copy_to
PlainCopied == ~have_containers /\ copied # NoCopy

C23_Destination ==
  PlainCopied => copied.dst = BuildPath(cache_dir, <<SplitPath(copied.key).name>>)

\* the file being fetched has COMPLETE = 0 in the summary
FetchesIncomplete == lpc = "fetch" /\ file.complete = 0

\* C28: a file whose hash in the summary has COMPLETE = 0 is never recorded in
\* the filemap with a meta whose complete flag is 1; only files with COMPLETE = 1
\* or without the key can end with complete = 1.
C28_CompleteFlagHonoured ==
  [][FetchesIncomplete => map'[file.name] # "complete"]_vars

(* ------------------------------------------------------------------ *)
(* Further claims about scr_fetch_sync (SpecSync)                       *)
(* ------------------------------------------------------------------ *)

\* rank 0 has chosen a candidate and is about to call scr_fetch_files on it
PipelineBegins == spc[0] = "files" /\ target # NoDir

\* the candidates of the earlier iterations of this call, which all failed
FailedEarlier == {attempts[k] : k \in 1 .. Len(attempts) - 1}

\* C11 (as stated): whenever the fetch of a candidate begins, the index file
\* equals the index of rank 0, the candidate is marked fetched in it, and every
\* candidate that failed earlier in this call is marked failed in it.
C11_IndexPersisted ==
  PipelineBegins =>
    /\ index_disk = index_hash
    /\ index_disk[target].fetched
    /\ \A d \in FailedEarlier : index_disk[d].failed

\* C11 (amended): as above when rank 0 read the index file, for the candidates
\* the index lists.
C11_IndexPersistedWhenRead ==
  PipelineBegins /\ read_index_file =>
    /\ index_disk = index_hash
    /\ current_checkpoint_id # NoId => index_disk[current_checkpoint_id].fetched
    /\ \A d \in FailedEarlier : index_hash[d].present => index_disk[d].failed

\* the second candidate begins after the first one failed
C11_Witness ==
  /\ PipelineBegins
  /\ read_index_file
  /\ Len(attempts) = 2
  /\ index_disk[attempts[1]].failed
  /\ index_disk[attempts[2]].fetched
  /\ ~index_start[attempts[2]].fetched

SyncFinished == \A r \in Ranks : spc[r] = "done"

\* the number of iterations of the loop with a non-empty target
NumAttempts == Cardinality({k \in 1 .. Len(attempts) : attempts[k] # NoDir})

\* the complete, non-failed records of the index file at entry
EntryCandidates == Candidates(index_start, NoId)

\* the current symlink can be read at entry (the initial state is the only one
\* with no iteration started and rank 0 at the start)
LinkReadableAtEntry == spc[0] = "start" /\ LinkTarget # NoDir

\* C12 (as stated): scr_fetch_sync terminates, and the number of attempts of a
\* call is at most the number of complete, non-failed index records at entry.
C12_TerminationBound ==
  /\ <>[]SyncFinished
  /\ [](NumAttempts <= Cardinality(EntryCandidates))

\* C12 (amended): scr_fetch_sync terminates, and the number of attempts is at
\* most the number of complete, non-failed index records at entry, plus one
\* when the current symlink is readable at entry.
C12_TerminationBoundPlusLink ==
  /\ <>[]SyncFinished
  /\ (~LinkReadableAtEntry => [](NumAttempts <= Cardinality(EntryCandidates)))
  /\ [](NumAttempts <= Cardinality(EntryCandidates) + 1)

\* every record of the index was attempted and failed, then the call returned
C12_Witness ==
  /\ SyncFinished
  /\ NumAttempts = MaxCkpts
  /\ Cardinality(EntryCandidates) = MaxCkpts
  /\ sync_rc[0] = SCR_FAILURE

\* C15: during scr_fetch_sync only rank 0 creates or removes the current symlink
\* and only rank 0 writes the index file.
C15_SingleWriter ==
  /\ link_writers \subseteq {0}
  /\ index_writers \subseteq {0}

\* C16: with scr_log_enable on, an attempt for which rank 0 logged "FETCH STARTED"
\* is closed by exactly one event of rank 0, "FETCH SUCCEEDED" if the attempt
\* succeeded and "FETCH FAILED" if it failed for whatever reason (events holds
\* what rank 0 logged in its last call of scr_fetch_files).
C16_EventPairing ==
  scr_log_enable /\ events # <<>> =>
    /\ events[1] = "FETCH STARTED"
    /\ Len(events) = 2
    /\ events[2] = (IF sync_rc[0] = SCR_SUCCESS THEN "FETCH SUCCEEDED" ELSE "FETCH FAILED")

(* ------------------------------------------------------------------ *)
(* Claims about scr_fetch_summary (SpecSummary)                         *)
(* ------------------------------------------------------------------ *)

SummaryReturned(r) == smpc[r] = "done"

\* C13: if rank 0 cannot access the directory or cannot read the summary file,
\* every rank returns failure and no rank takes part in the broadcast of the
\* dataset, the broadcast of the containers or the scatter of the files; in
\* all cases the ranks return the same rc.
C13_SummaryFailure ==
  /\ summary_read \in {"noaccess", "unreadable"} =>
        \A r \in Ranks :
          /\ collectives[r] \subseteq {"rc"}
          /\ SummaryReturned(r) => summary_rc[r] = SCR_FAILURE
  /\ \A r, q \in Ranks :
        SummaryReturned(r) /\ SummaryReturned(q) => summary_rc[r] = summary_rc[q]

\* two ranks have returned after rank 0 failed to read the summary file
C13_Witness ==
  /\ scr_ranks_world = 2
  /\ summary_read = "unreadable"
  /\ \A r \in Ranks : SummaryReturned(r) /\ summary_rc[r] = SCR_FAILURE

\* C14: on success, the file_list of every rank r holds the dataset rank 0
\* read, its files are exactly the files of the entry of r under RANK2FILE (none
\* when r has no entry), the containers are in file_list iff the summary holds
\* some, and every file carries PATH = dir.
C14_SummaryResult ==
  \A r \in Ranks :
    SummaryReturned(r) /\ summary_rc[r] = SCR_SUCCESS =>
      /\ file_list[r].dataset = summary_file.dataset
      /\ {f.name : f \in file_list[r].files} =
           (IF r \in summary_file.ranks THEN summary_file.files[r] ELSE {})
      /\ file_list[r].has_containers <=> summary_file.containers # {}
      /\ file_list[r].has_containers => file_list[r].containers = summary_file.containers
      /\ \A f \in file_list[r].files : f.path = SummaryDir

\* two ranks with different files have both returned success
C14_Witness ==
  /\ scr_ranks_world = 2
  /\ \A r \in Ranks : SummaryReturned(r) /\ summary_rc[r] = SCR_SUCCESS
  /\ {f.name : f \in file_list[0].files} = {"a"}
  /\ {f.name : f \in file_list[1].files} = {"b"}
  /\ file_list[1].has_containers


(* ------------------------------------------------------------------ *)
(* Claims about the request slots of scr_fetch_data (SpecFlow)          *)
(* ------------------------------------------------------------------ *)

\* the slots of the window whose receive is pending
PendingSlots == {k \in 0 .. (w - 1) : req[k + w] = "active"}

\* no request is pending on slot k: never used, or both requests completed
SlotFree(k) == req[k] \in {"uninit", "null"} /\ req[k + w] \in {"uninit", "null"}

\* C26: rank 0 posts a receive and a send on a slot only when no request is
\* pending on it; the ranks with an outstanding go occupy pairwise distinct
\* slots with index in [0, w), and outstanding is the number of pending receives.
C26_SlotExclusivity ==
  /\ [][SendsGo => index \in 0 .. (w - 1) /\ SlotFree(index)]_vars
  /\ [](/\ \A a, b \in PendingSlots : a # b => peer[a] # peer[b]
        /\ \A k \in PendingSlots : peer[k] \in Workers
        /\ outstanding = Cardinality(PendingSlots))

\* a slot is used a second time while another slot still waits for its reply
C26_Witness ==
  /\ w = 2
  /\ i = 4
  /\ Cardinality(PendingSlots) = 2
  /\ \E k \in PendingSlots : peer[k] = 3
  /\ \E k \in PendingSlots : peer[k] < 3

(* ------------------------------------------------------------------ *)
(* Claims about the candidates of scr_fetch_sync (SpecSync)             *)
(* ------------------------------------------------------------------ *)

\* the iterations that had a target
Tried == {k \in 1 .. Len(attempts) : attempts[k] # NoDir}

\* the target of iteration k has a record in the index that was read, so that
\* its id became current_checkpoint_id
KnownId(k) == read_index_file /\ GetIdByDir(index_start, attempts[k]) # NoId

\* C25: within one call of scr_fetch_sync no subdirectory is attempted twice, and
\* the checkpoint ids of the candidates taken from the index decrease strictly
\* from one attempt to the next (every target after one with a known id has a
\* smaller id).
C25_NoRepeatedCandidate ==
  /\ \A a, b \in Tried : a < b => attempts[a] # attempts[b]
  /\ \A a, b \in Tried : a < b /\ KnownId(a) => attempts[b] < attempts[a]

\* two candidates were taken from the index, the newer one first, and both failed
C25_Witness ==
  /\ SyncFinished
  /\ attempts = <<2, 1, NoDir>>
  /\ KnownId(1) /\ KnownId(2)
  /\ index_disk[1].failed /\ index_disk[2].failed
  /\ sync_rc[0] = SCR_FAILURE

\* rank 0 is at a place where it may mark the index, with no checkpoint id
MarkPointWithoutId ==
  \/ spc[0] = "select" /\ spc'[0] = "files" /\ current_checkpoint_id' = NoId
  \/ spc[0] = "after" /\ spc'[0] # "after" /\ current_checkpoint_id = NoId

\* C27: if rank 0 could not read the index file, scr_fetch_sync never writes it,
\* whatever the current symlink names and however the attempts end; and nothing
\* is marked or written for a target whose checkpoint id is unknown (-1).
C27_IndexNotOverwritten ==
  /\ [](~index_readable => index_disk = index_start /\ index_writers = {})
  /\ [][MarkPointWithoutId => index_disk' = index_disk /\ index_hash' = index_hash]_vars

\* the index could not be read, the target of the current symlink was attempted
\* and failed, and the index file is as it was
C27_Witness ==
  /\ SyncFinished
  /\ ~index_readable
  /\ \E k \in Ids : index_start[k].present
  /\ Tried = {1}
  /\ current_checkpoint_id = NoId
  /\ sync_rc[0] = SCR_FAILURE
  /\ index_disk = index_start

(* ------------------------------------------------------------------ *)
(* Claims about the cache of the dataset (SpecCache)                    *)
(* ------------------------------------------------------------------ *)

\* rank r returned failure from the data phase or from the redundancy scheme
FailedAttempt(r) == pc[r] = "return" /\ files_rc[r] = SCR_FAILURE

\* in the calls of rank r, each creation of the cache directory comes right
\* after a delete on the filemap passed as map
DeleteBeforeCreate(r) ==
  \A k \in 1 .. Len(cache_calls[r]) :
    cache_calls[r][k] = "dir_create" => k > 1 /\ cache_calls[r][k - 1] = "delete_map"

\* the calls of scr_cache_delete that act on the filemap passed as map
OwnDeletes == IF scr_map_is_map THEN {"delete_map", "delete_scr_map"} ELSE {"delete_map"}

\* C24: every rank deletes the dataset from the cache, on its own filemap,
\* before it creates the cache directory, and after an attempt that fails in the
\* data phase or in the redundancy scheme; after a failed attempt the filemap of
\* no rank lists files of the dataset.
C24_PartialCleanup ==
  \A r \in Ranks :
    /\ DeleteBeforeCreate(r)
    /\ FailedAttempt(r) =>
          /\ cache_calls[r][Len(cache_calls[r])] \in OwnDeletes
          /\ ~fmap_files[r]

\* the same when the caller passed scr_map, and for failures of the data phase
C24_CleanupOfScrMap ==
  \A r \in Ranks :
    /\ DeleteBeforeCreate(r)
    /\ FailedAttempt(r) /\ (scr_map_is_map \/ reddesc_rc = "none") => ~fmap_files[r]

====
